---------------------------- MODULE Spec2Model ----------------------------
(***************************************************************************)
(* Kairon AI (Personalized-Learning-Platform): the generation client       *)
(* (services/geminiService.ts), the SemanticSearch and StudyPlanner        *)
(* features, the application context and the tab transition of App.tsx.    *)
(*                                                                         *)
(* Texts are sequences of lexical tokens, JavaScript values are records    *)
(* of one shape (JV), and a backend response is either a rejection or a    *)
(* resolution that may or may not carry text.                              *)
(***************************************************************************)
EXTENDS Integers, Sequences, FiniteSets, TLC

(***************************************************************************)
(* Bounds of the model.                                                    *)
(***************************************************************************)
\* longest array among the sampled backend values
MaxItems == 2
\* entry point invocations in one run of the generation client
MaxCalls == 2

(***************************************************************************)
(* Lexical tokens.  k is the token kind, s its payload.  "ws" is JSON      *)
(* whitespace (space, tab, line breaks); "bom" is whitespace that          *)
(* String.prototype.trim removes but JSON.parse rejects (U+FEFF, U+00A0);  *)
(* "junk" is any run of characters that is no JSON token (prose).          *)
(***************************************************************************)
Tok(k, s) == [k |-> k, s |-> s]
LBRACK == Tok("[", "")
RBRACK == Tok("]", "")
LBRACE == Tok("{", "")
RBRACE == Tok("}", "")
COLON  == Tok(":", "")
COMMA  == Tok(",", "")
WS     == Tok("ws", "")
BOM    == Tok("bom", "")
JUNK   == Tok("junk", "Sorry, I cannot help with that")
StrTok(s) == Tok("str", s)

(***************************************************************************)
(* JavaScript values.  t is the type tag; s the payload of a string,       *)
(* number or boolean; k and e the keys and the values of an object (in     *)
(* insertion order), e alone the elements of an array; x the tokens of a   *)
(* text (the string a text entry point returns).                           *)
(***************************************************************************)
JV(t, s, k, e, x) == [t |-> t, s |-> s, k |-> k, e |-> e, x |-> x]
Undefined == JV("undefined", "", <<>>, <<>>, <<>>)
Null      == JV("null", "", <<>>, <<>>, <<>>)
Bool(b)   == JV("bool", b, <<>>, <<>>, <<>>)
Num(n)    == JV("num", n, <<>>, <<>>, <<>>)
Str(s)    == JV("str", s, <<>>, <<>>, <<>>)
Arr(es)   == JV("arr", "", <<>>, es, <<>>)
Obj(ks, es) == JV("obj", "", ks, es, <<>>)
TextVal(toks) == JV("text", "", <<>>, <<>>, toks)

\* the index of key in ks, 0 when absent
RECURSIVE IndexOf(_, _)
IndexOf(ks, key) ==
    IF ks = <<>> THEN 0
    ELSE IF ks[Len(ks)] = key THEN Len(ks)
    ELSE IndexOf(SubSeq(ks, 1, Len(ks) - 1), key)

HasKey(v, key) == v.t = "obj" /\ IndexOf(v.k, key) > 0

(***************************************************************************)
(* String.prototype.trim: removes leading and trailing whitespace, JSON    *)
(* whitespace and the other white space characters alike.                  *)
(***************************************************************************)
IsSpace(tok) == tok.k \in {"ws", "bom"}

RECURSIVE TrimStart(_)
TrimStart(toks) ==
    IF toks # <<>> /\ IsSpace(Head(toks)) THEN TrimStart(Tail(toks)) ELSE toks

RECURSIVE TrimEnd(_)
TrimEnd(toks) ==
    IF toks # <<>> /\ IsSpace(toks[Len(toks)])
    THEN TrimEnd(SubSeq(toks, 1, Len(toks) - 1))
    ELSE toks

trim(toks) == TrimEnd(TrimStart(toks))

(***************************************************************************)
(* JSON.parse, as a recursive descent over the tokens.  A parse result is  *)
(* [ok, v, rest]: whether a value was read, the value, and the tokens      *)
(* after it.  Only JSON whitespace may stand between tokens.               *)
(***************************************************************************)
PFail == [ok |-> FALSE, v |-> Undefined, rest |-> <<>>]
POk(v, rest) == [ok |-> TRUE, v |-> v, rest |-> rest]

RECURSIVE SkipWs(_)
SkipWs(toks) ==
    IF toks # <<>> /\ Head(toks).k = "ws" THEN SkipWs(Tail(toks)) ELSE toks

\* the object (ks, es) with key set to v: a repeated key keeps its place and
\* takes the later value
SetMember(ks, es, key, v) ==
    LET i == IndexOf(ks, key)
    IN  IF i = 0
        THEN [k |-> Append(ks, key), e |-> Append(es, v)]
        ELSE [k |-> ks, e |-> [es EXCEPT ![i] = v]]

RECURSIVE ParseValue(_)
RECURSIVE ParseElems(_, _)
RECURSIVE ParseMembers(_, _, _)

\* after "[" or ",": one element, then "," or "]"
ParseElems(toks, acc) ==
    LET r == ParseValue(toks)
    IN  IF ~r.ok \/ r.rest = <<>> THEN PFail
        ELSE IF Head(r.rest).k = "," THEN ParseElems(Tail(r.rest), Append(acc, r.v))
        ELSE IF Head(r.rest).k = "]" THEN POk(Arr(Append(acc, r.v)), SkipWs(Tail(r.rest)))
        ELSE PFail

\* after "{" or ",": one member "key": value, then "," or "}"
ParseMembers(toks, ks, es) ==
    LET t == SkipWs(toks)
    IN  IF t = <<>> \/ Head(t).k # "str" THEN PFail
        ELSE LET c == SkipWs(Tail(t))
             IN  IF c = <<>> \/ Head(c).k # ":" THEN PFail
                 ELSE LET r == ParseValue(Tail(c))
                          m == SetMember(ks, es, Head(t).s, r.v)
                      IN  IF ~r.ok \/ r.rest = <<>> THEN PFail
                          ELSE IF Head(r.rest).k = "," THEN ParseMembers(Tail(r.rest), m.k, m.e)
                          ELSE IF Head(r.rest).k = "}" THEN POk(Obj(m.k, m.e), SkipWs(Tail(r.rest)))
                          ELSE PFail

\* one value with the whitespace around it
ParseValue(toks) ==
    LET t == SkipWs(toks)
    IN  IF t = <<>> THEN PFail
        ELSE LET h == Head(t)
                 after == SkipWs(Tail(t))
             IN  CASE h.k = "null" -> POk(Null, after)
                   [] h.k = "bool" -> POk(Bool(h.s), after)
                   [] h.k = "num"  -> POk(Num(h.s), after)
                   [] h.k = "str"  -> POk(Str(h.s), after)
                   [] h.k = "["    ->
                        IF after # <<>> /\ Head(after).k = "]"
                        THEN POk(Arr(<<>>), SkipWs(Tail(after)))
                        ELSE ParseElems(Tail(t), <<>>)
                   [] h.k = "{"    ->
                        IF after # <<>> /\ Head(after).k = "}"
                        THEN POk(Obj(<<>>, <<>>), SkipWs(Tail(after)))
                        ELSE ParseMembers(Tail(t), <<>>, <<>>)
                   [] OTHER -> PFail

\* JSON.parse(text): [ok, v]; ok is FALSE where JSON.parse throws a SyntaxError
JSONparse(toks) ==
    LET r == ParseValue(toks)
    IN  IF r.ok /\ r.rest = <<>> THEN [ok |-> TRUE, v |-> r.v]
        ELSE [ok |-> FALSE, v |-> Undefined]

(***************************************************************************)
(* JSON.stringify of a value built from null, booleans, numbers, strings,  *)
(* arrays and objects: no whitespace.                                      *)
(***************************************************************************)
RECURSIVE JSONstringify(_)
RECURSIVE StringifyElems(_)
RECURSIVE StringifyMembers(_, _)

StringifyElems(es) ==
    IF es = <<>> THEN <<>>
    ELSE IF Len(es) = 1 THEN JSONstringify(es[1])
    ELSE JSONstringify(es[1]) \o <<COMMA>> \o StringifyElems(Tail(es))

StringifyMembers(ks, es) ==
    IF ks = <<>> THEN <<>>
    ELSE LET m == <<StrTok(ks[1]), COLON>> \o JSONstringify(es[1])
         IN  IF Len(ks) = 1 THEN m
             ELSE m \o <<COMMA>> \o StringifyMembers(Tail(ks), Tail(es))

JSONstringify(v) ==
    CASE v.t = "null" -> <<Tok("null", "")>>
      [] v.t = "bool" -> <<Tok("bool", v.s)>>
      [] v.t = "num"  -> <<Tok("num", v.s)>>
      [] v.t = "str"  -> <<StrTok(v.s)>>
      [] v.t = "arr"  -> <<LBRACK>> \o StringifyElems(v.e) \o <<RBRACK>>
      [] v.t = "obj"  -> <<LBRACE>> \o StringifyMembers(v.k, v.e) \o <<RBRACE>>

(***************************************************************************)
(* The JavaScript operators the entry points apply to a decoded value.     *)
(***************************************************************************)
\* Array.isArray(v)
ArrayIsArray(v) == v.t = "arr"

\* v?.name for a name that no built-in prototype defines
OptGet(v, name) ==
    IF HasKey(v, name) THEN v.e[IndexOf(v.k, name)] ELSE Undefined

\* ToBoolean(v)
Truthy(v) ==
    /\ v.t \notin {"undefined", "null"}
    /\ ~(v.t = "bool" /\ v.s = "false")
    /\ ~(v.t = "num" /\ v.s = "0")
    /\ ~(v.t = "str" /\ v.s = "")
    /\ ~(v.t = "text" /\ v.x = <<>>)

\* a || b
OrElse(a, b) == IF Truthy(a) THEN a ELSE b

(***************************************************************************)
(* The remote call ai.models.generateContent settles in one of three ways: *)
(* it rejects with some value (an Error or any other value), it resolves   *)
(* with a response whose text getter yields a string, or it resolves with  *)
(* a response that carries no text (the getter yields undefined).          *)
(***************************************************************************)
ErrorValue(message)    == [isError |-> TRUE,  message |-> message]
NonErrorValue(message) == [isError |-> FALSE, message |-> message]
NoError == NonErrorValue("")

RemoteRejects(err)   == [settled |-> "rejected", err |-> err, hasText |-> FALSE, text |-> <<>>]
RemoteResolves(toks) == [settled |-> "resolved", err |-> NoError, hasText |-> TRUE, text |-> toks]
RemoteResolvesNoText == [settled |-> "resolved", err |-> NoError, hasText |-> FALSE, text |-> <<>>]

(***************************************************************************)
(* The outcome of an entry point's promise: fulfilled with a value, or     *)
(* rejected with an Error whose message is msg, a sequence of the parts    *)
(* the template literal joins.                                             *)
(***************************************************************************)
Fulfilled(v)      == [kind |-> "fulfilled", v |-> v, msg |-> <<>>]
RejectedWith(msg) == [kind |-> "rejected", v |-> Undefined, msg |-> msg]
NoOutcome         == [kind |-> "none", v |-> Undefined, msg |-> <<>>]

\* the TypeError of response.text.trim() when text is undefined
TrimOfUndefined == ErrorValue("Cannot read properties of undefined (reading 'trim')")

\* a handler that lets the remote error through as it came
handleApiError_Rethrow(error, context) == RejectedWith(<<error.message>>)

\* handleApiError(error, context): always a rejection with a new Error
handleApiError(error, context) ==
    IF error.isError
    THEN RejectedWith(<<"API Error during ">> \o context \o <<": ", error.message>>)
    ELSE RejectedWith(<<"An unknown error occurred during ">> \o context \o <<".">>)

\* the rejection of the inner catch, returned without await and so not
\* caught by the outer catch
InvalidFormat(context) ==
    RejectedWith(<<"The API returned an invalid format for ">> \o context
                 \o <<". Please try again.">>)

\* generateWithSchema, from the settled remote call on
generateWithSchema(resp, context) ==
    IF resp.settled = "rejected" THEN handleApiError(resp.err, context)
    ELSE IF ~resp.hasText THEN handleApiError(TrimOfUndefined, context)
    ELSE LET jsonText == trim(resp.text)
             parsed == JSONparse(jsonText)
         IN  IF parsed.ok THEN Fulfilled(parsed.v) ELSE InvalidFormat(context)

\* the text entry points: try { return response.text } catch { handleApiError }
generateText(resp, context) ==
    IF resp.settled = "rejected" THEN handleApiError(resp.err, context)
    ELSE IF resp.hasText THEN Fulfilled(TextVal(resp.text))
    ELSE Fulfilled(Undefined)

\* the arguments that matter to the model: the topic of a concept map, the
\* history and the question of a tutor turn
NoArgs == [topic |-> "", history |-> <<>>, question |-> ""]

\* the context string each entry point hands to the error handler
TopicContext(topic) == <<"concept map generation for topic \"", topic, "\"">>

Context(fn, args) ==
    CASE fn = "fetchTopicInfo"                 -> <<"fetching topic info">>
      [] fn = "generateSummary"                -> <<"summary generation">>
      [] fn = "generateFlashcards"             -> <<"flashcard generation">>
      [] fn = "generateMCQs"                   -> <<"MCQ generation">>
      [] fn = "performSemanticSearch"          -> <<"semantic search">>
      [] fn = "generateAnswer"                 -> <<"answer generation">>
      [] fn = "generateConceptMapData"         -> <<"concept map generation">>
      [] fn = "generateConceptMapForTopic"     -> TopicContext(args.topic)
      [] fn = "generatePersonalizedStudyGuide" -> <<"personalized study guide generation">>
      [] fn = "extractTextFromFile"            -> <<"file text extraction">>
      [] fn = "transcribeAudio"                -> <<"audio transcription">>
      [] fn = "getTutorResponse"               -> <<"AI Tutor response generation">>
      [] fn = "generateEssayOutline"           -> <<"essay outline generation">>
      [] fn = "generateEssayArguments"         -> <<"essay argument generation">>
      [] fn = "generateLessonPlan"             -> <<"lesson plan generation">>
      [] fn = "generateStudyPlan"              -> <<"study plan generation">>

TextEntryPoints ==
    {"fetchTopicInfo", "generateSummary", "generateAnswer",
     "generatePersonalizedStudyGuide", "extractTextFromFile", "transcribeAudio",
     "getTutorResponse", "generateEssayArguments"}

ListEntryPoints == {"generateFlashcards", "generateMCQs"}

SchemaEntryPoints ==
    ListEntryPoints \cup
    {"performSemanticSearch", "generateConceptMapData", "generateConceptMapForTopic",
     "generateEssayOutline", "generateLessonPlan", "generateStudyPlan"}

EntryPoints == TextEntryPoints \cup SchemaEntryPoints

\* the field a list feature or the search reads from a wrapper object
ListName(fn) ==
    CASE fn = "generateFlashcards"    -> "flashcards"
      [] fn = "generateMCQs"          -> "mcqs"
      [] fn = "performSemanticSearch" -> "snippets"

\* await generateWithSchema(...) and then f(result): a rejection passes through
Then(outcome, v) == IF outcome.kind = "rejected" THEN outcome ELSE Fulfilled(v)

EmptyArray == Arr(<<>>)
EmptyConceptMap == Obj(<<"nodes", "links">>, <<EmptyArray, EmptyArray>>)

\* a list feature that accepts the raw array only
generateFlashcards_NoUnwrap(resp) ==
    LET r == generateWithSchema(resp, Context("generateFlashcards", NoArgs))
        result == r.v
    IN  Then(r, IF ArrayIsArray(result) THEN result ELSE EmptyArray)

generateFlashcards(resp) ==
    LET r == generateWithSchema(resp, Context("generateFlashcards", NoArgs))
        result == r.v
    IN  Then(r, IF ArrayIsArray(result) THEN result
                ELSE OrElse(OptGet(result, "flashcards"), EmptyArray))

\* result.mcqs in place of result?.mcqs: a TypeError on null, let through raw
generateMCQs_NoOptionalChaining(resp) ==
    LET r == generateWithSchema(resp, Context("generateMCQs", NoArgs))
        result == r.v
    IN  IF r.kind = "fulfilled" /\ result.t \in {"null", "undefined"}
        THEN RejectedWith(<<"Cannot read properties of null (reading 'mcqs')">>)
        ELSE Then(r, IF ArrayIsArray(result) THEN result
                     ELSE OrElse(OptGet(result, "mcqs"), EmptyArray))

generateMCQs(resp) ==
    LET r == generateWithSchema(resp, Context("generateMCQs", NoArgs))
        result == r.v
    IN  Then(r, IF ArrayIsArray(result) THEN result
                ELSE OrElse(OptGet(result, "mcqs"), EmptyArray))

\* a search that lets a decoded array through as the list features do
performSemanticSearch_ArrayPassthrough(resp) ==
    LET r == generateWithSchema(resp, Context("performSemanticSearch", NoArgs))
        result == r.v
    IN  Then(r, IF ArrayIsArray(result) THEN result
                ELSE OrElse(OptGet(result, "snippets"), EmptyArray))

performSemanticSearch(resp) ==
    LET r == generateWithSchema(resp, Context("performSemanticSearch", NoArgs))
        result == r.v
    IN  Then(r, OrElse(OptGet(result, "snippets"), EmptyArray))

generateConceptMapData(resp) ==
    LET r == generateWithSchema(resp, Context("generateConceptMapData", NoArgs))
    IN  Then(r, OrElse(r.v, EmptyConceptMap))

generateConceptMapForTopic(resp, topic) ==
    LET r == generateWithSchema(resp, TopicContext(topic))
    IN  Then(r, OrElse(r.v, EmptyConceptMap))

generateEssayOutline(resp) ==
    generateWithSchema(resp, Context("generateEssayOutline", NoArgs))

generateLessonPlan(resp) ==
    generateWithSchema(resp, Context("generateLessonPlan", NoArgs))

generateStudyPlan(resp) ==
    generateWithSchema(resp, Context("generateStudyPlan", NoArgs))

\* the outcome of entry point fn called with args when the remote call
\* settles as resp
EntryPointOutcome(fn, args, resp) ==
    CASE fn = "generateFlashcards"         -> generateFlashcards(resp)
      [] fn = "generateMCQs"               -> generateMCQs(resp)
      [] fn = "performSemanticSearch"      -> performSemanticSearch(resp)
      [] fn = "generateConceptMapData"     -> generateConceptMapData(resp)
      [] fn = "generateConceptMapForTopic" -> generateConceptMapForTopic(resp, args.topic)
      [] fn = "generateEssayOutline"       -> generateEssayOutline(resp)
      [] fn = "generateLessonPlan"         -> generateLessonPlan(resp)
      [] fn = "generateStudyPlan"          -> generateStudyPlan(resp)
      [] OTHER                             -> generateText(resp, Context(fn, args))


(***************************************************************************)
(* Declared shapes: the response schemas of geminiService.ts and the       *)
(* types of types.ts that the entry points promise to return.  A shape is  *)
(* a record of one form: type, items (the element shape of an ARRAY, a     *)
(* sequence of length one), props and sub (the properties of an OBJECT     *)
(* and their shapes), required.                                            *)
(***************************************************************************)
SString  == [type |-> "STRING",  items |-> <<>>, props |-> <<>>, sub |-> <<>>, required |-> <<>>]
SInteger == [type |-> "INTEGER", items |-> <<>>, props |-> <<>>, sub |-> <<>>, required |-> <<>>]
SArray(item) ==
    [type |-> "ARRAY", items |-> <<item>>, props |-> <<>>, sub |-> <<>>, required |-> <<>>]
SObject(props, sub) ==
    [type |-> "OBJECT", items |-> <<>>, props |-> props, sub |-> sub, required |-> props]

FlashcardShape == SObject(<<"question", "answer">>, <<SString, SString>>)
MCQShape ==
    SObject(<<"question", "options", "correctAnswer", "explanation">>,
            <<SString, SArray(SString), SString, SString>>)
SnippetsShape == SArray(SString)
ConceptMapShape ==
    SObject(<<"nodes", "links">>,
            <<SArray(SObject(<<"id", "group">>, <<SString, SInteger>>)),
              SArray(SObject(<<"source", "target", "value">>,
                             <<SString, SString, SInteger>>))>>)
EssayOutlineShape ==
    SObject(<<"title", "introduction", "body", "conclusion">>,
            <<SString, SString,
              SArray(SObject(<<"heading", "points">>, <<SString, SArray(SString)>>)),
              SString>>)
LessonPlanShape ==
    SObject(<<"title", "objective", "duration", "materials", "activities", "assessment">>,
            <<SString, SString, SString, SArray(SString),
              SArray(SObject(<<"name", "duration", "description">>,
                             <<SString, SString, SString>>)),
              SString>>)
StudyPlanShape ==
    SObject(<<"title", "durationDays", "schedule">>,
            <<SString, SInteger,
              SArray(SObject(<<"day", "topic", "tasks">>,
                             <<SInteger, SString, SArray(SString)>>))>>)

\* the shape the entry point declares for the value it returns
DeclaredShape(fn) ==
    CASE fn = "generateFlashcards"         -> SArray(FlashcardShape)
      [] fn = "generateMCQs"               -> SArray(MCQShape)
      [] fn = "performSemanticSearch"      -> SnippetsShape
      [] fn = "generateConceptMapData"     -> ConceptMapShape
      [] fn = "generateConceptMapForTopic" -> ConceptMapShape
      [] fn = "generateEssayOutline"       -> EssayOutlineShape
      [] fn = "generateLessonPlan"         -> LessonPlanShape
      [] fn = "generateStudyPlan"          -> StudyPlanShape

\* v has the shape: the type matches, every required property is present and
\* every declared property that is present has its shape
RECURSIVE Conforms(_, _)
Conforms(v, shape) ==
    CASE shape.type = "STRING"  -> v.t = "str"
      [] shape.type = "INTEGER" -> v.t = "num"
      [] shape.type = "ARRAY"   ->
            /\ v.t = "arr"
            /\ \A i \in 1..Len(v.e) : Conforms(v.e[i], shape.items[1])
      [] shape.type = "OBJECT"  ->
            /\ v.t = "obj"
            /\ \A i \in 1..Len(shape.required) : HasKey(v, shape.required[i])
            /\ \A i \in 1..Len(shape.props) :
                  HasKey(v, shape.props[i]) =>
                      Conforms(OptGet(v, shape.props[i]), shape.sub[i])


(***************************************************************************)
(* The sampled backend behaviour: the values a model may answer with, the  *)
(* texts that carry them (bare, padded with whitespace, pretty-printed,    *)
(* cut short, with a stray white space character inside) and the values a  *)
(* remote call may reject with.                                            *)
(***************************************************************************)
SeqsUpTo(S, n) == UNION {[1..m -> S] : m \in 0..n}

Card1 == Obj(<<"question", "answer">>,
             <<Str("What does photosynthesis convert?"), Str("Light into chemical energy.")>>)
Card2 == Obj(<<"question", "answer">>, <<Str("q2"), Str("a2")>>)
MCQ1  == Obj(<<"question", "options", "correctAnswer", "explanation">>,
             <<Str("q1"), Arr(<<Str("o1"), Str("o2"), Str("o3"), Str("o4")>>),
               Str("o1"), Str("because")>>)

SampleItems  == {Card1, Card2, MCQ1, Str("s1")}
SampleArrays == {Arr(es) : es \in SeqsUpTo(SampleItems, MaxItems)}
ShortArrays  == {a \in SampleArrays : Len(a.e) <= 1}
SampleAtoms  ==
    {Null, Num("0"), Num("1"), Str(""), Str("abc"), Bool("true"), Bool("false")}
ListNames == {"flashcards", "mcqs", "snippets"}

SampleWrappers ==
    {Obj(<<n>>, <<v>>) : n \in ListNames, v \in SampleArrays \cup SampleAtoms}
SampleMultiKey ==
    {Obj(<<n, "note">>, <<a, Str("abc")>>) : n \in ListNames, a \in ShortArrays}
    \cup {Obj(<<"note", n>>, <<Str("abc"), a>>) : n \in ListNames, a \in ShortArrays}
SampleOtherObjects ==
    {Obj(<<>>, <<>>), Obj(<<"note">>, <<Str("abc")>>), Obj(<<"items">>, <<Arr(<<Card1>>)>>)}

ConceptMap1 ==
    Obj(<<"nodes", "links">>,
        <<Arr(<<Obj(<<"id", "group">>, <<Str("n1"), Num("1")>>)>>),
          Arr(<<Obj(<<"source", "target", "value">>, <<Str("n1"), Str("n1"), Num("1")>>)>>)>>)
EssayOutline1 ==
    Obj(<<"title", "introduction", "body", "conclusion">>,
        <<Str("t"), Str("i"),
          Arr(<<Obj(<<"heading", "points">>, <<Str("h"), Arr(<<Str("p")>>)>>)>>),
          Str("c")>>)
LessonPlan1 ==
    Obj(<<"title", "objective", "duration", "materials", "activities", "assessment">>,
        <<Str("t"), Str("o"), Str("50 minutes"), Arr(<<Str("m")>>),
          Arr(<<Obj(<<"name", "duration", "description">>, <<Str("n"), Str("d"), Str("x")>>)>>),
          Str("a")>>)
StudyPlan1 ==
    Obj(<<"title", "durationDays", "schedule">>,
        <<Str("plan one"), Num("1"),
          Arr(<<Obj(<<"day", "topic", "tasks">>, <<Num("1"), Str("t"), Arr(<<Str("k")>>)>>)>>)>>)
StudyPlan2 ==
    Obj(<<"title", "durationDays", "schedule">>, <<Str("plan two"), Num("1"), Arr(<<>>)>>)
\* answers that are valid JSON and not a study plan
StudyPlanNoSchedule == Obj(<<"title">>, <<Str("plan")>>)
StudyPlanBadDays ==
    Obj(<<"title", "durationDays", "schedule">>, <<Str("plan"), Str("seven"), Arr(<<>>)>>)

SampleDocuments ==
    {ConceptMap1, EssayOutline1, LessonPlan1, StudyPlan1, StudyPlan2,
     StudyPlanNoSchedule, StudyPlanBadDays}

SampleValues ==
    SampleArrays \cup SampleAtoms \cup SampleWrappers \cup SampleMultiKey
    \cup SampleOtherObjects \cup SampleDocuments

\* JSON whitespace after every comma and colon
RECURSIVE Pretty(_)
Pretty(toks) ==
    IF toks = <<>> THEN <<>>
    ELSE IF Head(toks).k \in {",", ":"} THEN <<Head(toks), WS>> \o Pretty(Tail(toks))
    ELSE <<Head(toks)>> \o Pretty(Tail(toks))

TextVariants(toks) ==
    {toks,
     <<BOM, WS>> \o toks \o <<WS, BOM>>,
     Pretty(toks),
     SubSeq(toks, 1, Len(toks) - 1),
     <<Head(toks), BOM>> \o Tail(toks)}

SampleTexts ==
    UNION {TextVariants(JSONstringify(v)) : v \in SampleValues}
    \cup {<<>>, <<WS>>, <<JUNK>>}

SampleRejections ==
    {ErrorValue("quota exceeded"), ErrorValue(""), NonErrorValue("timeout")}

SampleResponses ==
    {RemoteResolves(t) : t \in SampleTexts}
    \cup {RemoteResolvesNoText}
    \cup {RemoteRejects(e) : e \in SampleRejections}

\* what a text entry point may be answered with
PlainResponses ==
    {RemoteResolves(t) : t \in {<<>>, <<JUNK>>, JSONstringify(Arr(<<Card1>>))}}
    \cup {RemoteResolvesNoText}
    \cup {RemoteRejects(e) : e \in SampleRejections}

SampleTopics == {"cells", "atoms"}
SampleArgs(f) ==
    IF f = "generateConceptMapForTopic" THEN {[NoArgs EXCEPT !.topic = t] : t \in SampleTopics}
    ELSE {NoArgs}

(***************************************************************************)
(* The variables.                                                          *)
(*   fn, args, response, outcome: one call of an entry point taken alone:  *)
(*     the entry point, its arguments, how the remote call settles, and    *)
(*     how the entry point's promise settles ("none" until it has).        *)
(*   pending, invocations, requests, last: the generation client under     *)
(*     any number of calls: the calls whose remote request is in flight    *)
(*     (in the order they were made), how many entry point invocations     *)
(*     and how many remote requests there have been, and the call that     *)
(*     settled last (among: how many calls were in flight when it did).    *)
(***************************************************************************)
VARIABLES fn, args, response, outcome,
          pending, invocations, requests, last,
          ingestedText, now, notifications, timers, displayedTab,
          query, isLoading, results, searchAttempted, searchHistory,
          localStorage, plannerIsLoading, studyPlan, inflight, user,
          activeTab, animationClass, transition,
          isSidebarCollapsed, language, llm,
          cards, reviews

decodeVars == <<fn, args, response, outcome>>
clientVars == <<pending, invocations, requests, last>>
\* AppProvider's state, the clock Date.now() reads and the pending
\* auto-dismiss timers
contextVars == <<ingestedText, now, notifications, timers>>
\* the state of the SemanticSearch component
searchVars == <<query, isLoading, results, searchAttempted, searchHistory>>
\* the state of the StudyPlanner component
plannerVars == <<plannerIsLoading, studyPlan>>
\* the tab selected in the Header, the class MainContent gives its content
\* and the pending 200 ms timers of its effect (the tab each has captured)
tabVars == <<activeTab, animationClass, transition>>
\* the other state of AppProvider
settingsVars == <<isSidebarCollapsed, language, llm>>
\* the scheduled flashcards and the grading events so far
schedVars == <<cards, reviews>>
\* everything but the generation client
uiVars == <<contextVars, displayedTab, searchVars, localStorage, plannerVars,
            inflight, user, tabVars, settingsVars, schedVars>>
vars == <<decodeVars, clientVars, uiVars>>

\* the state of each part while a specification does not exercise it
DecodeIdle ==
    /\ fn = "generateSummary" /\ args = NoArgs
    /\ response = RemoteResolvesNoText /\ outcome = NoOutcome
NoCall ==
    [fn |-> "", args |-> NoArgs, history |-> <<>>, response |-> RemoteResolvesNoText,
     outcome |-> NoOutcome, among |-> 0]
ClientIdle ==
    /\ pending = <<>> /\ invocations = 0 /\ requests = 0 /\ last = NoCall

\* localStorage.getItem('semanticSearchHistory'): absent, or a text
NoItem == [present |-> FALSE, text |-> <<>>]
Item(toks) == [present |-> TRUE, text |-> toks]
\* the user so far: how many new queries were typed, how many earlier ones
\* were searched again, and whether the query typed last awaits its search
NoUser == [fresh |-> 0, repeats |-> 0, typed |-> FALSE]

\* MainContent as constructed: the active tab displayed, faded in
TransitionIdle ==
    /\ activeTab = "Ingest" /\ animationClass = "fade-in" /\ transition = <<>>
\* AppProvider's initial settings
SettingsIdle ==
    /\ isSidebarCollapsed = FALSE /\ language = "English" /\ llm = "gemini-2.5-flash"
\* no flashcard scheduled, no review made
SchedulerIdle == cards = <<>> /\ reviews = <<>>

\* the user interface as constructed: AppProvider's initial state, the
\* Ingest tab displayed, no feature component mounted, an empty store
UiIdle ==
    /\ TransitionIdle /\ SettingsIdle /\ SchedulerIdle
    /\ ingestedText = Null /\ now = 0 /\ notifications = <<>> /\ timers = <<>>
    /\ displayedTab = "Ingest"
    /\ query = <<>> /\ isLoading = FALSE /\ results = Arr(<<>>)
    /\ searchAttempted = FALSE /\ searchHistory = Arr(<<>>)
    /\ localStorage = NoItem
    /\ plannerIsLoading = FALSE /\ studyPlan = Null
    /\ inflight = <<>> /\ user = NoUser

(***************************************************************************)
(* One call taken alone: every entry point against every sampled           *)
(* response.                                                               *)
(***************************************************************************)
InitDecodeVars ==
    /\ fn \in EntryPoints
    /\ args \in SampleArgs(fn)
    /\ response \in (IF fn \in SchemaEntryPoints THEN SampleResponses ELSE PlainResponses)
    /\ outcome = NoOutcome

InitDecode == InitDecodeVars /\ ClientIdle /\ UiIdle

CallFlashcards ==
    /\ fn = "generateFlashcards" /\ outcome = NoOutcome
    /\ outcome' = generateFlashcards(response)
    /\ UNCHANGED <<fn, args, response, clientVars, uiVars>>

CallMCQs ==
    /\ fn = "generateMCQs" /\ outcome = NoOutcome
    /\ outcome' = generateMCQs(response)
    /\ UNCHANGED <<fn, args, response, clientVars, uiVars>>

CallSemanticSearch ==
    /\ fn = "performSemanticSearch" /\ outcome = NoOutcome
    /\ outcome' = performSemanticSearch(response)
    /\ UNCHANGED <<fn, args, response, clientVars, uiVars>>

CallConceptMap ==
    /\ fn = "generateConceptMapData" /\ outcome = NoOutcome
    /\ outcome' = generateConceptMapData(response)
    /\ UNCHANGED <<fn, args, response, clientVars, uiVars>>

CallConceptMapForTopic ==
    /\ fn = "generateConceptMapForTopic" /\ outcome = NoOutcome
    /\ outcome' = generateConceptMapForTopic(response, args.topic)
    /\ UNCHANGED <<fn, args, response, clientVars, uiVars>>

CallEssayOutline ==
    /\ fn = "generateEssayOutline" /\ outcome = NoOutcome
    /\ outcome' = generateEssayOutline(response)
    /\ UNCHANGED <<fn, args, response, clientVars, uiVars>>

CallLessonPlan ==
    /\ fn = "generateLessonPlan" /\ outcome = NoOutcome
    /\ outcome' = generateLessonPlan(response)
    /\ UNCHANGED <<fn, args, response, clientVars, uiVars>>

CallStudyPlan ==
    /\ fn = "generateStudyPlan" /\ outcome = NoOutcome
    /\ outcome' = generateStudyPlan(response)
    /\ UNCHANGED <<fn, args, response, clientVars, uiVars>>

CallText ==
    /\ fn \in TextEntryPoints /\ outcome = NoOutcome
    /\ outcome' = generateText(response, Context(fn, args))
    /\ UNCHANGED <<fn, args, response, clientVars, uiVars>>

NextDecode ==
    \/ CallFlashcards
    \/ CallMCQs
    \/ CallSemanticSearch
    \/ CallConceptMap
    \/ CallConceptMapForTopic
    \/ CallEssayOutline
    \/ CallLessonPlan
    \/ CallStudyPlan
    \/ CallText

SpecDecode == InitDecode /\ [][NextDecode]_vars


(***************************************************************************)
(* The claims about one call taken alone (SpecDecode).                     *)
(***************************************************************************)
Settled == outcome.kind # "none"
ctx == Context(fn, args)

\* the two error kinds of the taxonomy, told apart by the message
IsBackendError(o, c) ==
    /\ o.kind = "rejected"
    /\ \/ /\ Len(o.msg) = Len(c) + 3
          /\ SubSeq(o.msg, 1, Len(c) + 2) = <<"API Error during ">> \o c \o <<": ">>
       \/ o.msg = <<"An unknown error occurred during ">> \o c \o <<".">>
IsMalformedResponseError(o, c) ==
    /\ o.kind = "rejected"
    /\ o.msg = <<"The API returned an invalid format for ">> \o c \o <<". Please try again.">>

\* the texts that carry the value v as valid JSON once trimmed
ValidTexts(v) ==
    LET t == JSONstringify(v)
    IN  {t, <<BOM, WS>> \o t \o <<WS, BOM>>, Pretty(t)}

\* the value the trimmed response text decodes to
Decoded == JSONparse(trim(response.text))
DecodesOk == response.settled = "resolved" /\ response.hasText /\ Decoded.ok

\* C1 (as claimed): a settled shape-constrained call has returned a value of
\* the declared shape or has failed with a BackendError or a
\* MalformedResponseError.
C1_ShapeOrTypedError ==
    (fn \in SchemaEntryPoints /\ Settled) =>
        \/ outcome.kind = "fulfilled" /\ Conforms(outcome.v, DeclaredShape(fn))
        \/ IsBackendError(outcome, ctx)
        \/ IsMalformedResponseError(outcome, ctx)

\* C2 (as claimed): a shape-constrained call fails with BackendError exactly when
\* the remote call rejected, and with MalformedResponseError whenever the
\* remote call resolved with no text or with text that does not decode.
C2_TwoFailurePoints ==
    (fn \in SchemaEntryPoints /\ Settled) =>
        /\ IsBackendError(outcome, ctx) <=> response.settled = "rejected"
        /\ (response.settled = "resolved" /\ ~DecodesOk)
               => IsMalformedResponseError(outcome, ctx)

FalsyValues == {Undefined, Null, Num("0"), Str(""), Bool("false")}
\* the decoded value holds a truthy value under the list name
HoldsList(d, name) ==
    /\ d.t = "obj"
    /\ \E i \in 1..Len(d.k) : d.k[i] = name /\ d.e[i] \notin FalsyValues
ListUnder(d, name) == d.e[CHOOSE i \in 1..Len(d.k) : d.k[i] = name]

\* C4 (as claimed): the decoded value is unwrapped only when it is a
\* single-key wrapper under the list name, a decoded array is returned
\* directly, and every other decoded value is returned as it is.
C4_UnwrapOnlySingleKey ==
    (fn \in ListEntryPoints \cup {"performSemanticSearch"} /\ Settled /\ DecodesOk) =>
        LET d == Decoded.v
        IN  IF d.t = "obj" /\ d.k = <<ListName(fn)>>
            THEN outcome = Fulfilled(d.e[1])
            ELSE outcome = Fulfilled(d)

\* C4 (amended): a list feature returns a decoded array directly; a decoded
\* object holding a truthy value under the list name, alone or among other
\* keys, is unwrapped to that value; every other decoded value, for the
\* search also a decoded array, yields the empty array.
C4_UnwrapAmended ==
    (fn \in ListEntryPoints \cup {"performSemanticSearch"} /\ Settled /\ DecodesOk) =>
        LET d == Decoded.v
        IN  IF fn \in ListEntryPoints /\ d.t = "arr" THEN outcome = Fulfilled(d)
            ELSE IF HoldsList(d, ListName(fn))
                 THEN outcome = Fulfilled(ListUnder(d, ListName(fn)))
                 ELSE outcome = Fulfilled(Arr(<<>>))

\* C4 witness: a wrapper with a second key is unwrapped all the same
C4_Witness ==
    /\ fn = "generateMCQs"
    /\ response = RemoteResolves(JSONstringify(Obj(<<"note", "mcqs">>, <<Str("abc"), Arr(<<MCQ1>>)>>)))
    /\ outcome = Fulfilled(Arr(<<MCQ1>>))

\* C5: for search, flashcards and MCQs, valid JSON without the expected list
\* (no such key; for the list features: and no array) yields the empty
\* collection and no failure.
C5_LenientEmpty ==
    (fn \in ListEntryPoints \cup {"performSemanticSearch"} /\ Settled /\ DecodesOk) =>
        LET d == Decoded.v
            absent == /\ ~(d.t = "obj" /\ \E i \in 1..Len(d.k) : d.k[i] = ListName(fn))
                      /\ ~(fn \in ListEntryPoints /\ d.t = "arr")
        IN  absent => outcome = Fulfilled(Arr(<<>>))

\* C5 witness: a decoded null
C5_Witness ==
    /\ fn = "generateFlashcards"
    /\ response = RemoteResolves(<<Tok("null", "")>>)
    /\ outcome = Fulfilled(Arr(<<>>))

\* C7 (as claimed): whatever the remote call rejects with, the entry point
\* rejects with an Error whose message starts by naming the feature and ends
\* with the remote error message.
C7_WrapsRemoteMessage ==
    (Settled /\ response.settled = "rejected") =>
        /\ outcome.kind = "rejected"
        /\ outcome.msg = <<"API Error during ">> \o ctx \o <<": ", response.err.message>>

\* C7 (amended): the entry point rejects with a new Error naming the feature:
\* "API Error during <feature>: <remote message>" when the rejected value is
\* an Error, "An unknown error occurred during <feature>." with nothing of the
\* rejected value when it is not.
C7_WrapsAmended ==
    (Settled /\ response.settled = "rejected") =>
        /\ outcome.kind = "rejected"
        /\ outcome.msg =
              IF response.err.isError
              THEN <<"API Error during ">> \o ctx \o <<": ", response.err.message>>
              ELSE <<"An unknown error occurred during ">> \o ctx \o <<".">>

\* C7 witness: a text entry point whose remote call rejects with a value that
\* is no Error
C7_Witness ==
    /\ fn = "generateSummary"
    /\ response = RemoteRejects(NonErrorValue("timeout"))
    /\ outcome = RejectedWith(<<"An unknown error occurred during ", "summary generation", ".">>)


(***************************************************************************)
(* The generation client under several calls (SpecClient).  An invocation  *)
(* builds its request and issues it at once (everything before the await); *)
(* the remote call then settles at any later time, and the rest of the     *)
(* entry point runs to its outcome in that same step.                      *)
(***************************************************************************)
\* the model AppContext selects initially
DefaultModel == "gemini-2.5-flash"

ChatMessage(role, content) == [role |-> role, content |-> content]
\* one element of contents: { role, parts: [{ text }] }
Turn(role, text) == [role |-> role, text |-> text]
Request(model, contents, config) ==
    [model |-> model, contents |-> contents, config |-> config]

\* history.map(msg => ({ role: msg.role, parts: [{ text: msg.content }] }))
RECURSIVE MapTurns(_)
MapTurns(history) ==
    IF history = <<>> THEN <<>>
    ELSE <<Turn(Head(history).role, Head(history).content)>> \o MapTurns(Tail(history))

\* a tutor that appends the question to the caller's array before mapping it
getTutorResponse_Push(model, history, question) ==
    LET pushed == Append(history, ChatMessage("user", question))
    IN  [request |-> Request(model, MapTurns(pushed), "systemInstruction"),
         history |-> pushed]

\* getTutorResponse up to the await: the request it sends and the caller's
\* history array as the call leaves it
getTutorResponse(model, history, question) ==
    [request |-> Request(model,
                         MapTurns(history) \o <<Turn("user", question)>>,
                         "systemInstruction"),
     history |-> history]

\* the other entry points up to the await: one prompt built from the
\* arguments (its wording is not modelled), with the response schema for a
\* shape-constrained call and the attachment for a multimodal one
EntryPointRequest(f, model) ==
    IF f \in SchemaEntryPoints
    THEN Request(model, <<Turn("user", f)>>, "responseSchema")
    ELSE IF f \in {"extractTextFromFile", "transcribeAudio"}
    THEN Request(model, <<Turn("user", f), Turn("user", "inlineData")>>, "none")
    ELSE Request(model, <<Turn("user", f)>>, "none")

Call(f, a, history, request) ==
    [fn |-> f, args |-> a, history |-> history, request |-> request]

RemoveAt(seq, i) == SubSeq(seq, 1, i - 1) \o SubSeq(seq, i + 1, Len(seq))

SampleMessages ==
    {ChatMessage("user", "What is a cell?"), ChatMessage("model", "What do you think?")}
SampleHistories ==
    {<<>>} \cup {<<m>> : m \in SampleMessages}
    \cup {<<ChatMessage("user", "What is a cell?"), ChatMessage("model", "What do you think?")>>}
SampleQuestions == {"Why?", "How?"}

ClientResponses ==
    {RemoteRejects(ErrorValue("quota exceeded")),
     RemoteRejects(NonErrorValue("timeout")),
     RemoteResolves(JSONstringify(Arr(<<Card1>>))),
     RemoteResolves(<<JUNK>>),
     RemoteResolvesNoText}

InitClient == DecodeIdle /\ ClientIdle /\ UiIdle

\* an invocation answered from the call settled last when it was the same
\* call and succeeded: no request is issued
InvokeEntryPoint_Memo(f, a) ==
    /\ f \in EntryPoints \ {"getTutorResponse"}
    /\ invocations < MaxCalls
    /\ invocations' = invocations + 1
    /\ IF last.fn = f /\ last.args = a /\ last.outcome.kind = "fulfilled"
       THEN UNCHANGED <<requests, pending>>
       ELSE /\ requests' = requests + 1
            /\ pending' = Append(pending, Call(f, a, <<>>, EntryPointRequest(f, DefaultModel)))
    /\ UNCHANGED <<last, decodeVars, uiVars>>

\* an entry point other than the tutor is invoked: one request is issued
InvokeEntryPoint(f, a) ==
    /\ f \in EntryPoints \ {"getTutorResponse"}
    /\ invocations < MaxCalls
    /\ invocations' = invocations + 1
    /\ requests' = requests + 1
    /\ pending' = Append(pending, Call(f, a, <<>>, EntryPointRequest(f, DefaultModel)))
    /\ UNCHANGED <<last, decodeVars, uiVars>>

\* getTutorResponse is invoked with the caller's history and a question
InvokeTutor(history, question) ==
    /\ invocations < MaxCalls
    /\ invocations' = invocations + 1
    /\ requests' = requests + 1
    /\ LET sent == getTutorResponse(DefaultModel, history, question)
       IN  pending' = Append(pending,
                Call("getTutorResponse",
                     [NoArgs EXCEPT !.history = history, !.question = question],
                     sent.history, sent.request))
    /\ UNCHANGED <<last, decodeVars, uiVars>>

\* a client whose entry points keep the call being made in a module-level
\* variable that every invocation overwrites: a call that settles reads the
\* context of the call invoked last
SettleCall_SharedContext(i, resp) ==
    /\ i \in 1..Len(pending)
    /\ LET c == pending[i]
           shared == pending[Len(pending)]
       IN  last' = [fn |-> c.fn, args |-> c.args, history |-> c.history,
                    response |-> resp,
                    outcome |-> EntryPointOutcome(shared.fn, shared.args, resp),
                    among |-> Len(pending)]
    /\ pending' = RemoveAt(pending, i)
    /\ UNCHANGED <<invocations, requests, decodeVars, uiVars>>

\* the remote call of the i-th call in flight settles as resp, and the entry
\* point runs to its outcome: no request is issued again
SettleCall(i, resp) ==
    /\ i \in 1..Len(pending)
    /\ LET c == pending[i]
       IN  last' = [fn |-> c.fn, args |-> c.args, history |-> c.history,
                    response |-> resp,
                    outcome |-> EntryPointOutcome(c.fn, c.args, resp),
                    among |-> Len(pending)]
    /\ pending' = RemoveAt(pending, i)
    /\ UNCHANGED <<invocations, requests, decodeVars, uiVars>>

NextClient ==
    \/ \E f \in EntryPoints : \E a \in SampleArgs(f) : InvokeEntryPoint(f, a)
    \/ \E h \in SampleHistories, q \in SampleQuestions : InvokeTutor(h, q)
    \/ \E i \in 1..MaxCalls, r \in ClientResponses : SettleCall(i, r)

SpecClient == InitClient /\ [][NextClient]_vars


(***************************************************************************)
(* The claims about the client under several calls (SpecClient).           *)
(***************************************************************************)
\* C6: every invocation has issued exactly one remote request (none is
\* issued again after a failure, none is saved by an identical call), and
\* the call settled last has the outcome of its own response: a text entry
\* point fulfils with the text it was answered with, a rejected remote call
\* fails the call, and the outcome is the one the entry point computes from
\* that response alone.
C6_OneRequestPerInvocation ==
    /\ requests = invocations
    /\ Len(pending) <= invocations
    /\ last.fn # "" =>
          /\ last.outcome = EntryPointOutcome(last.fn, last.args, last.response)
          /\ last.response.settled = "rejected" => last.outcome.kind = "rejected"
          /\ (last.fn \in TextEntryPoints /\ last.response.settled = "resolved"
                  /\ last.response.hasText)
                => last.outcome = Fulfilled(TextVal(last.response.text))

\* C6 witness: after a call failed, the same call made again is a second
\* request in flight
C6_Witness ==
    /\ Len(pending) = 1
    /\ pending[1].fn = last.fn /\ pending[1].args = last.args
    /\ last.fn = "generateSummary"
    /\ last.outcome.kind = "rejected"
    /\ requests = 2 /\ invocations = 2

\* C10: a tutor call in flight has sent the caller's history in its order
\* followed by the question as the final user turn and has left the
\* caller's array as it was; a settled tutor call has the outcome of its own
\* response and arguments.
C10_TutorStateless ==
    /\ \A i \in 1..Len(pending) :
          pending[i].fn = "getTutorResponse" =>
              LET c == pending[i]
                  h == c.args.history
              IN  /\ c.history = h
                  /\ c.request.contents =
                        [j \in 1..(Len(h) + 1) |->
                            IF j <= Len(h)
                            THEN [role |-> h[j].role, text |-> h[j].content]
                            ELSE [role |-> "user", text |-> c.args.question]]
    /\ last.fn = "getTutorResponse" =>
          /\ last.history = last.args.history
          /\ last.outcome =
                IF last.response.settled = "resolved"
                THEN IF last.response.hasText
                     THEN Fulfilled(TextVal(last.response.text))
                     ELSE Fulfilled(Undefined)
                ELSE IF last.response.err.isError
                     THEN RejectedWith(<<"API Error during ", "AI Tutor response generation",
                                         ": ", last.response.err.message>>)
                     ELSE RejectedWith(<<"An unknown error occurred during ",
                                         "AI Tutor response generation", ".">>)

\* C10 witness: a tutor call with a two-turn history in flight after a tutor
\* call with the same arguments was answered
C10_Witness ==
    /\ last.fn = "getTutorResponse"
    /\ last.outcome.kind = "fulfilled"
    /\ \E i \in 1..Len(pending) :
          /\ pending[i].fn = "getTutorResponse"
          /\ pending[i].args = last.args
          /\ Len(pending[i].args.history) = 2
          /\ Len(pending[i].request.contents) = 3

\* the outcome of entry point f called alone with arguments a and answered
\* with resp: what the Call actions of SpecDecode compute
OutcomeAlone(f, a, resp) ==
    CASE f = "generateFlashcards"         -> generateFlashcards(resp)
      [] f = "generateMCQs"               -> generateMCQs(resp)
      [] f = "performSemanticSearch"      -> performSemanticSearch(resp)
      [] f = "generateConceptMapData"     -> generateConceptMapData(resp)
      [] f = "generateConceptMapForTopic" -> generateConceptMapForTopic(resp, a.topic)
      [] f = "generateEssayOutline"       -> generateEssayOutline(resp)
      [] f = "generateLessonPlan"         -> generateLessonPlan(resp)
      [] f = "generateStudyPlan"          -> generateStudyPlan(resp)
      [] OTHER                            -> generateText(resp, Context(f, a))

\* the request of entry point f called alone with arguments a
RequestAlone(f, a) ==
    IF f = "getTutorResponse"
    THEN getTutorResponse(DefaultModel, a.history, a.question).request
    ELSE EntryPointRequest(f, DefaultModel)

\* the step settles the call in flight at i
Settles(i) ==
    /\ i \in 1..Len(pending)
    /\ pending' = RemoveAt(pending, i)
    /\ last'.fn = pending[i].fn /\ last'.args = pending[i].args
    /\ last'.among = Len(pending)

\* C11: calls in flight share no state.  Whatever other calls are in
\* flight, of the same or of other entry points, and in whatever order they
\* settle, the call that settles has the outcome (value or error) it has
\* when called alone with the same arguments and response; its settling
\* leaves the other calls in flight as they were, and an invocation leaves
\* the calls already in flight, and the call settled last, as they were.
C11_CallsIndependent ==
    [][/\ \A i \in 1..Len(pending) :
             Len(pending') < Len(pending) /\ pending' = RemoveAt(pending, i)
                 /\ last'.fn = pending[i].fn /\ last'.args = pending[i].args
               => /\ last'.outcome = OutcomeAlone(pending[i].fn, pending[i].args,
                                                 last'.response)
                  /\ last'.history = pending[i].args.history
       /\ Len(pending') < Len(pending) => \E i \in 1..Len(pending) : Settles(i)
       /\ Len(pending') > Len(pending) =>
               /\ SubSeq(pending', 1, Len(pending)) = pending
               /\ Len(pending') = Len(pending) + 1
               /\ last' = last
               /\ \A c \in {pending'[Len(pending')]} :
                      c.request = RequestAlone(c.fn, c.args)]_vars

\* C11 witness: two calls for concept maps of different topics were in
\* flight together; the one made last has failed first, with its own topic
\* in the message, while the other is still in flight
C11_Witness ==
    /\ Len(pending) = 1
    /\ pending[1].fn = "generateConceptMapForTopic" /\ pending[1].args.topic = "cells"
    /\ last.fn = "generateConceptMapForTopic" /\ last.args.topic = "atoms"
    /\ last.among = 2
    /\ last.outcome =
          RejectedWith(<<"API Error during ", "concept map generation for topic \"",
                         "atoms", "\"", ": ", "quota exceeded">>)

(***************************************************************************)
(* The user interface: the application context (AppContext.tsx), the tab   *)
(* MainContent displays (App.tsx) and the SemanticSearch and StudyPlanner  *)
(* components.  A component's state exists while its tab is displayed; a   *)
(* component that is not mounted has its initial state.  An async handler  *)
(* is two steps: the part up to the await, and the continuation that runs  *)
(* when the generation call settles.  A query string is the sequence of    *)
(* its characters: letters in lower or upper case, and spaces.             *)
(***************************************************************************)
\* bounds of the user interface model
\* generation calls of the features awaiting their response at one time
MaxInFlight == 1
\* notifications whose auto-dismiss timer is pending at one time
MaxNotifications == 1
\* the last millisecond of the clock
MaxNow == 1
\* distinct new queries the user types in a run
MaxQueries == 11
\* searches of a query that was searched before (retyped or clicked)
MaxRepeats == 1

\* the updatedHistory cut: .slice(0, 10)
HistoryLimit == 10

Alphabet == <<"a", "b", "c", "d", "e", "f", "g", "h", "i", "j", "k", "l", "m", "n">>
Lower(c) == Tok("lower", c)
Upper(c) == Tok("upper", c)

\* String.prototype.toLowerCase
toLowerCase(str) ==
    [i \in 1..Len(str) |-> IF str[i].k = "upper" THEN Lower(str[i].s) ELSE str[i]]

\* Array.prototype.slice(start, end) for 0 <= start
slice(seq, start, end) ==
    SubSeq(seq, start + 1, IF end < Len(seq) THEN end ELSE Len(seq))

Ingest         == "Ingest"
SemanticSearch == "Semantic Search"
StudyPlanner   == "Study Planner"
\* the tabs of the enum that the model displays
Tabs == {Ingest, SemanticSearch, StudyPlanner}

Notification(id, message, type) == [id |-> id, message |-> message, type |-> type]

\* setNotifications(prev => prev.filter(n => n.id !== id))
removeNotification(id) ==
    notifications' = SelectSeq(notifications, LAMBDA n : n.id # id)

\* addNotification: the id is Date.now(), the notification is appended and
\* the timer that removes it is started
addNotification(message, type) ==
    /\ notifications' = Append(notifications, Notification(now, message, type))
    /\ timers' = Append(timers, now)

\* the features notify while fewer than MaxNotifications timers are pending
CanNotify == Len(timers) < MaxNotifications

\* what the features leave alone
UiFrame == UNCHANGED <<decodeVars, clientVars, tabVars, settingsVars, schedVars>>

\* time passes
Tick ==
    /\ now < MaxNow
    /\ now' = now + 1
    /\ UNCHANGED <<ingestedText, notifications, timers, displayedTab, searchVars,
                   localStorage, plannerVars, inflight, user>>
    /\ UiFrame

\* the auto-dismiss timer of a notification fires (5000 ms after it was
\* started: at some later step)
TimerFires(i) ==
    /\ i \in 1..Len(timers)
    /\ removeNotification(timers[i])
    /\ timers' = RemoveAt(timers, i)
    /\ UNCHANGED <<ingestedText, now, displayedTab, searchVars, localStorage,
                   plannerVars, inflight, user>>
    /\ UiFrame

\* the context's setter of the ingested text
setIngestedText(text) ==
    /\ ingestedText' = text
    /\ UNCHANGED <<now, notifications, timers, displayedTab, searchVars,
                   localStorage, plannerVars, inflight, user>>
    /\ UiFrame

\* the sidebar button: setIsSidebarCollapsed(!isSidebarCollapsed)
toggleSidebar ==
    /\ isSidebarCollapsed' = ~isSidebarCollapsed
    /\ UNCHANGED <<contextVars, displayedTab, searchVars, localStorage, plannerVars,
                   inflight, user, language, llm>>
    /\ UNCHANGED <<decodeVars, clientVars, tabVars, schedVars>>

\* the context's setter of the answer language
setLanguage(l) ==
    /\ language' = l
    /\ UNCHANGED <<contextVars, displayedTab, searchVars, localStorage, plannerVars,
                   inflight, user, isSidebarCollapsed, llm>>
    /\ UNCHANGED <<decodeVars, clientVars, tabVars, schedVars>>

\* the context's setter of the model
setLlm(m) ==
    /\ llm' = m
    /\ UNCHANGED <<contextVars, displayedTab, searchVars, localStorage, plannerVars,
                   inflight, user, isSidebarCollapsed, language>>
    /\ UNCHANGED <<decodeVars, clientVars, tabVars, schedVars>>

\* a notification is dismissed by hand: removeNotification(its id); its
\* timer stays pending
DismissNotification(i) ==
    /\ i \in 1..Len(notifications)
    /\ removeNotification(notifications[i].id)
    /\ UNCHANGED <<ingestedText, now, timers, displayedTab, searchVars, localStorage,
                   plannerVars, inflight, user>>
    /\ UiFrame

\* the mount effect of SemanticSearch: the stored history, when there is
\* one and it parses
LoadedHistory ==
    IF localStorage.present /\ localStorage.text # <<>>
    THEN LET p == JSONparse(localStorage.text)
         IN  IF p.ok THEN p.v ELSE Arr(<<>>)
    ELSE Arr(<<>>)

\* the feature component a tab renders
Feature(tab) ==
    CASE tab = SemanticSearch -> "search"
      [] tab = StudyPlanner   -> "plan"
      [] OTHER                -> "none"

\* the calls in flight once the component of tab is unmounted: its calls
\* stay pending, and their continuations will address a component that is
\* gone
Abandon(calls, tab) ==
    [i \in 1..Len(calls) |->
        IF calls[i].feature = Feature(tab) THEN [calls[i] EXCEPT !.live = FALSE]
        ELSE calls[i]]

\* setDisplayedTab(tab) and the render that follows: the component
\* displayed is unmounted and the one of the new tab is mounted with its
\* initial state, and its mount effect runs
setDisplayedTab(tab) ==
    /\ displayedTab' = tab
    /\ IF tab = displayedTab
       THEN UNCHANGED <<inflight, searchVars, plannerVars>>
       ELSE /\ inflight' = Abandon(inflight, displayedTab)
            /\ query' = <<>> /\ isLoading' = FALSE /\ results' = Arr(<<>>)
            /\ searchAttempted' = FALSE
            /\ searchHistory' = IF tab = SemanticSearch THEN LoadedHistory ELSE Arr(<<>>)
            /\ plannerIsLoading' = FALSE /\ studyPlan' = Null

\* a Header whose effect has no cleanup: the timer of the transition under
\* way keeps running when another tab is selected
setActiveTab_NoCleanup(tab) ==
    /\ tab # activeTab
    /\ activeTab' = tab
    /\ IF tab # displayedTab
       THEN /\ animationClass' = "fade-out"
            /\ transition' = Append(transition, tab)
       ELSE UNCHANGED <<animationClass, transition>>
    /\ UNCHANGED <<contextVars, displayedTab, searchVars, localStorage, plannerVars,
                   inflight, user, settingsVars, schedVars, decodeVars, clientVars>>

\* a tab button of the Header is clicked: setActiveTab(tab), and the effect
\* of MainContent runs again: its cleanup clears the pending timer, and
\* when the tab is not the displayed one the content fades out and a timer
\* is started that has captured the tab
setActiveTab(tab) ==
    /\ tab # activeTab
    /\ activeTab' = tab
    /\ IF tab # displayedTab
       THEN /\ animationClass' = "fade-out"
            /\ transition' = <<tab>>
       ELSE /\ transition' = <<>>
            /\ UNCHANGED animationClass
    /\ UNCHANGED <<contextVars, displayedTab, searchVars, localStorage, plannerVars,
                   inflight, user, settingsVars, schedVars, decodeVars, clientVars>>

\* the i-th pending timer fires: setDisplayedTab(the tab it captured) and
\* setAnimationClass('fade-in'); the effect then runs again for the new
\* displayedTab and, when that is not the active tab, fades out and starts
\* a timer once more
TransitionTimerFires(i) ==
    /\ i \in 1..Len(transition)
    /\ setDisplayedTab(transition[i])
    /\ IF activeTab = transition[i]
       THEN /\ animationClass' = "fade-in"
            /\ transition' = RemoveAt(transition, i)
       ELSE /\ animationClass' = "fade-out"
            /\ transition' = Append(RemoveAt(transition, i), activeTab)
    /\ UNCHANGED <<contextVars, localStorage, user, activeTab, settingsVars,
                   schedVars, decodeVars, clientVars>>

\* the user goes to another tab and the transition completes: the tab is
\* selected, and 200 ms later it is displayed
ShowTab(tab) ==
    /\ tab \in Tabs /\ tab # displayedTab
    /\ transition = <<>>
    /\ activeTab' = tab
    /\ setDisplayedTab(tab)
    /\ animationClass' = "fade-in"
    /\ UNCHANGED <<contextVars, localStorage, user, transition, settingsVars,
                   schedVars, decodeVars, clientVars>>

\* onChange of the search input
setQuery(text) == query' = text

\* an update that compares the entries as they are
updateSearchHistory_CaseSensitive(history, newQuery) ==
    Arr(slice(<<Str(newQuery)>>
              \o SelectSeq(history.e, LAMBDA item : item.s # newQuery),
              0, HistoryLimit))

\* updateSearchHistory: the history with newQuery in front, without the
\* entries equal to it up to case, cut to ten
updateSearchHistory(history, newQuery) ==
    Arr(slice(<<Str(newQuery)>>
              \o SelectSeq(history.e,
                     LAMBDA item : toLowerCase(item.s) # toLowerCase(newQuery)),
              0, HistoryLimit))

\* a generation call of a feature awaiting its response; before is what the
\* feature showed and stored when the handler was entered
UiCall(feature, currentQuery) ==
    [feature |-> feature, live |-> TRUE, query |-> currentQuery,
     before |-> [results |-> results, searchHistory |-> searchHistory,
                 localStorage |-> localStorage, studyPlan |-> studyPlan]]

\* runSearch up to the await, while fewer than limit calls await their
\* response; the caller says what becomes of the input field and of the
\* user
runSearchWithin(currentQuery, limit) ==
    /\ displayedTab = SemanticSearch
    /\ IF ~Truthy(ingestedText)
       THEN /\ CanNotify
            /\ addNotification(<<"Please ingest some text first.">>, "info")
            /\ UNCHANGED <<isLoading, results, searchAttempted, searchHistory,
                           localStorage, inflight>>
       ELSE IF trim(currentQuery) = <<>>
       THEN /\ CanNotify
            /\ addNotification(<<"Please enter a search query.">>, "info")
            /\ UNCHANGED <<isLoading, results, searchAttempted, searchHistory,
                           localStorage, inflight>>
       ELSE /\ Len(inflight) < limit
            /\ isLoading' = TRUE
            /\ searchAttempted' = TRUE
            /\ results' = Arr(<<>>)
            /\ LET updatedHistory == updateSearchHistory(searchHistory, currentQuery)
               IN  /\ searchHistory' = updatedHistory
                   /\ localStorage' = Item(JSONstringify(updatedHistory))
            /\ inflight' = Append(inflight, UiCall("search", currentQuery))
            /\ UNCHANGED <<notifications, timers>>
    /\ UNCHANGED <<ingestedText, now, displayedTab, plannerVars>>
    /\ UiFrame

\* runSearch up to the await
runSearch(currentQuery) == runSearchWithin(currentQuery, MaxInFlight)

\* the Search button (enabled for a non-blank query while not loading) or
\* the Enter key in the input (always)
handleSearch ==
    /\ runSearch(query)
    /\ user' = [user EXCEPT !.typed = FALSE]
    /\ UNCHANGED query

\* a click on the i-th entry of Recent Searches
handleHistoryClick(i) ==
    /\ i \in 1..Len(searchHistory.e)
    /\ user.repeats < MaxRepeats
    /\ user' = [user EXCEPT !.repeats = @ + 1]
    /\ setQuery(searchHistory.e[i].s)
    /\ runSearch(searchHistory.e[i].s)

\* a Clear History that resets the ingested text as well
clearHistory_ClearsText ==
    /\ displayedTab = SemanticSearch
    /\ Len(searchHistory.e) > 0
    /\ searchHistory' = Arr(<<>>)
    /\ localStorage' = NoItem
    /\ ingestedText' = Null
    /\ user' = NoUser
    /\ UNCHANGED <<now, notifications, timers, displayedTab, query, isLoading, results,
                   searchAttempted, plannerVars, inflight>>
    /\ UiFrame

\* Clear History, shown while the history is not empty; with nothing left
\* of the earlier queries, the user starts over
clearHistory ==
    /\ displayedTab = SemanticSearch
    /\ Len(searchHistory.e) > 0
    /\ searchHistory' = Arr(<<>>)
    /\ localStorage' = NoItem
    /\ user' = NoUser
    /\ UNCHANGED <<contextVars, displayedTab, query, isLoading, results,
                   searchAttempted, plannerVars, inflight>>
    /\ UiFrame

\* a catch block that swallows the error
notifyError_Silent(e) == UNCHANGED <<notifications, timers>>

\* catch (e) { addNotification(e.message) } of runSearch and handleGenerate
notifyError(e) == CanNotify /\ addNotification(e.msg, "error")

\* the continuation of runSearch when the call in flight at i settles as
\* resp: setResults on success, the notification on failure, and
\* setIsLoading(false) in either case; the setters of a component that was
\* unmounted meanwhile change nothing
SettleSearch(i, resp) ==
    /\ i \in 1..Len(inflight)
    /\ inflight[i].feature = "search"
    /\ LET call == inflight[i]
           searchResults == performSemanticSearch(resp)
       IN  /\ IF searchResults.kind = "fulfilled"
              THEN /\ results' = IF call.live THEN searchResults.v ELSE results
                   /\ UNCHANGED <<notifications, timers>>
              ELSE /\ notifyError(searchResults)
                   /\ UNCHANGED results
           /\ isLoading' = IF call.live THEN FALSE ELSE isLoading
    /\ inflight' = RemoveAt(inflight, i)
    /\ UNCHANGED <<ingestedText, now, displayedTab, query, searchAttempted,
                   searchHistory, localStorage, plannerVars, user>>
    /\ UiFrame

\* a handleGenerate without the check of the ingested text
handleGenerate_NoCheck ==
    /\ displayedTab = StudyPlanner
    /\ ~plannerIsLoading
    /\ Len(inflight) < MaxInFlight
    /\ plannerIsLoading' = TRUE
    /\ studyPlan' = Null
    /\ inflight' = Append(inflight, UiCall("plan", <<>>))
    /\ UNCHANGED <<contextVars, displayedTab, searchVars, localStorage, user>>
    /\ UiFrame

\* handleGenerate up to the await (the button is disabled while loading)
handleGenerate ==
    /\ displayedTab = StudyPlanner
    /\ ~plannerIsLoading
    /\ IF ~Truthy(ingestedText)
       THEN /\ CanNotify
            /\ addNotification(<<"Please ingest your study material first.">>, "info")
            /\ UNCHANGED <<plannerVars, inflight>>
       ELSE /\ Len(inflight) < MaxInFlight
            /\ plannerIsLoading' = TRUE
            /\ studyPlan' = Null
            /\ inflight' = Append(inflight, UiCall("plan", <<>>))
            /\ UNCHANGED <<notifications, timers>>
    /\ UNCHANGED <<ingestedText, now, displayedTab, searchVars, localStorage, user>>
    /\ UiFrame

\* the continuation of handleGenerate when the call in flight at i settles
SettlePlan(i, resp) ==
    /\ i \in 1..Len(inflight)
    /\ inflight[i].feature = "plan"
    /\ LET call == inflight[i]
           plan == generateStudyPlan(resp)
       IN  /\ IF plan.kind = "fulfilled"
              THEN /\ studyPlan' = IF call.live THEN plan.v ELSE studyPlan
                   /\ UNCHANGED <<notifications, timers>>
              ELSE /\ notifyError(plan)
                   /\ UNCHANGED studyPlan
           /\ plannerIsLoading' = IF call.live THEN FALSE ELSE plannerIsLoading
    /\ inflight' = RemoveAt(inflight, i)
    /\ UNCHANGED <<ingestedText, now, displayedTab, searchVars, localStorage, user>>
    /\ UiFrame

(***************************************************************************)
(* The features in use (SpecUI): text is ingested, tabs are displayed,     *)
(* searches and study plans are started and their calls settle in any      *)
(* order, while time passes and notifications expire.                      *)
(***************************************************************************)
Notes == Str("notes")
SampleIngested == {Notes}

\* the query typed: "A" (the input is "" at first)
SampleQueries == {<<Upper("a")>>}
\* a query of white space only: " "
BlankQueries == {<<WS>>}

Snippets1 == Obj(<<"snippets">>, <<Arr(<<Str("s1")>>)>>)
SearchResponses ==
    {RemoteRejects(ErrorValue("quota exceeded")), RemoteResolves(JSONstringify(Snippets1))}
PlanResponses ==
    {RemoteRejects(ErrorValue("quota exceeded")), RemoteResolves(JSONstringify(StudyPlan1))}

InitUI == DecodeIdle /\ ClientIdle /\ UiIdle

\* the user types text into the search input
TypeQuery(text) ==
    /\ displayedTab = SemanticSearch
    /\ setQuery(text)
    /\ UNCHANGED <<contextVars, displayedTab, isLoading, results, searchAttempted,
                   searchHistory, localStorage, plannerVars, inflight, user>>
    /\ UiFrame

NextUI ==
    \/ \E text \in SampleIngested : setIngestedText(text)
    \/ Tick
    \/ \E i \in 1..MaxNotifications : TimerFires(i)
    \/ \E tab \in Tabs : ShowTab(tab)
    \/ \E text \in SampleQueries \cup BlankQueries : TypeQuery(text)
    \/ handleSearch
    \/ clearHistory
    \/ handleGenerate
    \/ \E i \in 1..MaxInFlight : \E resp \in SearchResponses : SettleSearch(i, resp)
    \/ \E i \in 1..MaxInFlight : \E resp \in PlanResponses : SettlePlan(i, resp)

SpecUI == InitUI /\ [][NextUI]_vars

(***************************************************************************)
(* The application context in use (SpecFrame): every operation that the    *)
(* context and the two features offer, the tab buttons of the Header and   *)
(* the sidebar button included, at one instant of the clock.               *)
(***************************************************************************)
SampleLanguages == {"English", "Spanish"}
SampleModels == {"gemini-2.5-flash", "gemini-2.5-pro"}

NextFrame ==
    \/ \E text \in SampleIngested : setIngestedText(text)
    \/ \E tab \in Tabs : setActiveTab(tab)
    \/ \E i \in 1..Len(transition) : TransitionTimerFires(i)
    \/ toggleSidebar
    \/ \E l \in SampleLanguages : setLanguage(l)
    \/ \E m \in SampleModels : setLlm(m)
    \/ \E i \in 1..MaxNotifications : TimerFires(i)
    \/ \E i \in 1..MaxNotifications : DismissNotification(i)
    \/ \E text \in SampleQueries : TypeQuery(text)
    \/ handleSearch
    \/ clearHistory
    \/ handleGenerate
    \/ \E i \in 1..MaxInFlight : \E resp \in SearchResponses : SettleSearch(i, resp)
    \/ \E i \in 1..MaxInFlight : \E resp \in PlanResponses : SettlePlan(i, resp)

SpecFrame == InitUI /\ [][NextFrame]_vars

(***************************************************************************)
(* The search history in use (SpecHistory): on ingested notes and an       *)
(* empty store, the user searches one new query after the other, now and   *)
(* then an earlier one again (retyped in another case, or clicked in       *)
(* Recent Searches), clears the history, and leaves the tab and returns.   *)
(***************************************************************************)
InitHistory ==
    /\ DecodeIdle /\ ClientIdle
    /\ activeTab = SemanticSearch /\ animationClass = "fade-in" /\ transition = <<>>
    /\ SettingsIdle /\ SchedulerIdle
    /\ ingestedText = Notes /\ now = 0 /\ notifications = <<>> /\ timers = <<>>
    /\ displayedTab = SemanticSearch
    /\ query = <<>> /\ isLoading = FALSE /\ results = Arr(<<>>)
    /\ searchAttempted = FALSE /\ searchHistory = Arr(<<>>)
    /\ localStorage = NoItem
    /\ plannerIsLoading = FALSE /\ studyPlan = Null
    /\ inflight = <<>> /\ user = NoUser

\* the user has searched what was typed and has seen the answer
UserReady == ~user.typed /\ inflight = <<>>

\* the user types the next new query: "a", then "b", ...
TypeNextQuery ==
    /\ displayedTab = SemanticSearch
    /\ UserReady
    /\ user.fresh < MaxQueries
    /\ user' = [user EXCEPT !.fresh = @ + 1, !.typed = TRUE]
    /\ setQuery(<<Lower(Alphabet[user.fresh + 1])>>)
    /\ UNCHANGED <<contextVars, displayedTab, isLoading, results, searchAttempted,
                   searchHistory, localStorage, plannerVars, inflight>>
    /\ UiFrame

\* "A": the first query in another case
SampleVariants == {<<Upper("a")>>}
\* the entries of Recent Searches the user clicks: the second, and the last
\* of a full list
SampleClicks == {2, HistoryLimit}

\* the user types a query typed before, written differently
TypeEarlierQuery(text) ==
    /\ displayedTab = SemanticSearch
    /\ UserReady
    /\ user.fresh >= 2
    /\ user.repeats < MaxRepeats
    /\ user' = [user EXCEPT !.repeats = @ + 1, !.typed = TRUE]
    /\ setQuery(text)
    /\ UNCHANGED <<contextVars, displayedTab, isLoading, results, searchAttempted,
                   searchHistory, localStorage, plannerVars, inflight>>
    /\ UiFrame

\* the user leaves the tab, or returns to it
LeaveOrReturn(tab) == UserReady /\ ShowTab(tab)

ClickWhenReady(i) == UserReady /\ handleHistoryClick(i)

HistoryResponses == {RemoteResolves(JSONstringify(Snippets1))}

NextHistory ==
    \/ TypeNextQuery
    \/ \E text \in SampleVariants : TypeEarlierQuery(text)
    \/ handleSearch
    \/ \E i \in SampleClicks : ClickWhenReady(i)
    \/ clearHistory
    \/ \E tab \in {Ingest, SemanticSearch} : LeaveOrReturn(tab)
    \/ \E i \in 1..MaxInFlight : \E resp \in HistoryResponses : SettleSearch(i, resp)

SpecHistory == InitHistory /\ [][NextHistory]_vars

(***************************************************************************)
(* The claims about the features (SpecUI, SpecHistory).                    *)
(***************************************************************************)
\* the sampled responses on which the call of a feature fails: the
\* rejections of the remote call
FailingSearch == {resp \in SearchResponses : resp.settled = "rejected"}
FailingPlan == {resp \in PlanResponses : resp.settled = "rejected"}
SampleFailures ==
    {performSemanticSearch(resp) : resp \in FailingSearch}
    \cup {generateStudyPlan(resp) : resp \in FailingPlan}

\* the step is the continuation of the call in flight at i, which failed
\* with outcome e
FailsAt(i, e) ==
    \/ \E resp \in FailingSearch : e = performSemanticSearch(resp) /\ SettleSearch(i, resp)
    \/ \E resp \in FailingPlan : e = generateStudyPlan(resp) /\ SettlePlan(i, resp)

\* the step adds the error notification of e and no other
Surfaces(e) ==
    notifications' = Append(notifications, [id |-> now, message |-> e.msg, type |-> "error"])

\* C8: when the generation call a feature started fails, the error message
\* is added as a notification, and the feature's results or plan and the
\* search history, in memory and in the store, are what they were when the
\* attempt was started.
C8_NoPartialState ==
    [][\A i \in 1..Len(inflight) : \A e \in SampleFailures :
          (FailsAt(i, e) /\ inflight[i].live) =>
              /\ Surfaces(e)
              /\ results' = inflight[i].before.results
              /\ studyPlan' = inflight[i].before.studyPlan
              /\ searchHistory' = inflight[i].before.searchHistory
              /\ localStorage' = inflight[i].before.localStorage]_vars

\* the step starts a search of currentQuery: a call joins those in flight
StartsSearch(currentQuery) ==
    /\ Len(inflight') = Len(inflight) + 1
    /\ inflight'[Len(inflight')].feature = "search"
    /\ inflight'[Len(inflight')].query = currentQuery

StartsPlan ==
    /\ Len(inflight') = Len(inflight) + 1
    /\ inflight'[Len(inflight')].feature = "plan"

\* C8 as amended: a failing call adds its error message as an error
\* notification, also when its component is gone, and changes nothing else
\* than the loading flag of the component that started it; what the attempt
\* committed when it started stays: runSearch has emptied the results and
\* put the query in front of the history, in memory and in the store, and
\* handleGenerate has dropped the plan shown before.
C8_FailureSurfaced ==
    [][/\ \A i \in 1..Len(inflight) : \A e \in SampleFailures :
            FailsAt(i, e) =>
                /\ Surfaces(e)
                /\ e.msg[1] = "API Error during "
                /\ e.msg[2] = (IF inflight[i].feature = "search" THEN "semantic search"
                               ELSE "study plan generation")
                /\ results' = results /\ searchAttempted' = searchAttempted
                /\ studyPlan' = studyPlan
                /\ searchHistory' = searchHistory
                /\ localStorage' = localStorage
                /\ isLoading' = (isLoading /\ ~(inflight[i].live
                                                /\ inflight[i].feature = "search"))
                /\ plannerIsLoading' = (plannerIsLoading /\ ~(inflight[i].live
                                                /\ inflight[i].feature = "plan"))
       /\ \A q \in SampleQueries :
            StartsSearch(q) =>
                /\ results' = Arr(<<>>) /\ searchAttempted' /\ isLoading'
                /\ searchHistory'.e[1] = Str(q)
                /\ localStorage'.present
                /\ SubSeq(localStorage'.text, 1, 2) = <<LBRACK, StrTok(q)>>
                /\ notifications' = notifications
       /\ StartsPlan =>
                /\ studyPlan' = Null /\ plannerIsLoading'
                /\ notifications' = notifications]_vars

\* C8 witness: a search of "A" has failed: the error is shown, the results
\* are empty and "A" is in the history and in the store
C8_Witness ==
    /\ displayedTab = SemanticSearch /\ inflight = <<>> /\ ~isLoading
    /\ searchAttempted /\ results = Arr(<<>>)
    /\ searchHistory = Arr(<<Str(<<Upper("a")>>)>>)
    /\ localStorage = Item(<<LBRACK, StrTok(<<Upper("a")>>), RBRACK>>)
    /\ Len(notifications) = 1
    /\ notifications[1].type = "error"
    /\ notifications[1].message =
          <<"API Error during ", "semantic search", ": ", "quota exceeded">>

\* the history stored under 'semanticSearchHistory'
Persisted ==
    IF localStorage.present THEN JSONparse(localStorage.text).v ELSE Arr(<<>>)

\* at most ten entries, no two of them equal up to case
Bounded(history) ==
    /\ history.t = "arr"
    /\ Len(history.e) <= 10
    /\ \A i, j \in 1..Len(history.e) :
          i # j => toLowerCase(history.e[i].s) # toLowerCase(history.e[j].s)

\* the entries of history that differ from str in more than case
Others(history, str) ==
    {i \in 1..Len(history.e) : toLowerCase(history.e[i].s) # toLowerCase(str)}

\* the step puts str in front of the history and keeps the other entries
\* behind it in their order, the oldest falling off a full list
MovesToFront(str) ==
    LET old == searchHistory.e
        new == searchHistory'.e
        rest == Others(searchHistory, str)
    IN  /\ new # <<>> /\ new[1] = Str(str)
        /\ Len(new) = (IF Cardinality(rest) < 10 THEN Cardinality(rest) + 1 ELSE 10)
        /\ \A j \in 2..Len(new) :
              \E i \in rest : /\ new[j] = old[i]
                              /\ Cardinality({m \in rest : m < i}) = j - 2

\* C9: the search history, in memory and as stored, has at most 10
\* entries and no two entries equal up to case, and memory and store agree
\* while the component is mounted; a search puts its query in front (moving
\* an entry equal to it up to case rather than adding one) and keeps the
\* order of the others, so the list is most-recent-first; no other step
\* changes the list, except clearHistory which empties it.
C9_SearchHistory ==
    /\ [](\A stored \in {Persisted} :
              /\ Bounded(searchHistory)
              /\ Bounded(stored)
              /\ displayedTab = SemanticSearch => searchHistory = stored)
    /\ [][IF Len(inflight') = Len(inflight) + 1
          THEN MovesToFront(inflight'[Len(inflight')].query)
          ELSE \/ displayedTab' # displayedTab /\ localStorage' = localStorage
               \/ searchHistory' = searchHistory /\ localStorage' = localStorage
               \/ searchHistory' = Arr(<<>>) /\ ~localStorage'.present]_vars

\* C9 witness: "a", "b", then "A", then nine more queries: the list is full,
\* "A" is its oldest entry, "a" is not in it and "b" has fallen off
C9_Witness ==
    /\ displayedTab = SemanticSearch
    /\ user.fresh = 11
    /\ Len(searchHistory.e) = 10
    /\ searchHistory.e[1] = Str(<<Lower("k")>>)
    /\ searchHistory.e[10] = Str(<<Upper("a")>>)
    /\ \A i \in 1..10 : searchHistory.e[i].s \notin {<<Lower("a")>>, <<Lower("b")>>}
    /\ Persisted = searchHistory

\* the step is the continuation of the call in flight at i
Completes(i) ==
    /\ i \in 1..Len(inflight)
    /\ Len(inflight') = Len(inflight) - 1
    /\ inflight' = RemoveAt(inflight, i)

\* C12: a call whose component was unmounted while it was pending (the user
\* went to another tab) may still complete, and its completion, success or
\* failure, changes nothing the user sees: no result, no plan, no loading
\* flag, no history and no notification.
C12_AbandonedDiscarded ==
    [][\A i \in 1..Len(inflight) :
          (Completes(i) /\ ~inflight[i].live) =>
              /\ notifications' = notifications
              /\ results' = results /\ studyPlan' = studyPlan
              /\ isLoading' = isLoading /\ plannerIsLoading' = plannerIsLoading
              /\ searchAttempted' = searchAttempted /\ query' = query
              /\ searchHistory' = searchHistory /\ localStorage' = localStorage
              /\ displayedTab' = displayedTab /\ ingestedText' = ingestedText]_vars

\* C13: ingestedText is written by ingestion only.  A step that changes it
\* sets it to the text ingested and changes nothing else, so no step of
\* the search and its history, of the study planner, of the tab buttons and
\* the transition, of the sidebar button, of the notifications or of the
\* model and language settings changes ingestedText.
C13_IngestedTextFrame ==
    [][ingestedText' # ingestedText =>
          /\ ingestedText' \in SampleIngested
          /\ UNCHANGED <<now, notifications, timers, displayedTab, searchVars,
                         localStorage, plannerVars, inflight, tabVars,
                         settingsVars>>]_vars

\* C13 witness: after the notes were ingested, a search was made and failed
\* into a notification, a plan was generated on another tab, the sidebar
\* was collapsed and the language and the model were changed: the ingested
\* text is still the notes
C13_Witness ==
    /\ ingestedText = Notes
    /\ isSidebarCollapsed /\ language = "Spanish" /\ llm = "gemini-2.5-pro"
    /\ activeTab = StudyPlanner /\ displayedTab = StudyPlanner
    /\ studyPlan # Null
    /\ localStorage.present
    /\ Len(notifications) = 1 /\ notifications[1].type = "error"

(***************************************************************************)
(* The spaced-repetition scheduler (SpecScheduler).  types.ts declares the *)
(* scheduled card (SRFlashcard); review is modelled on the contract of the *)
(* scheduler, with the values the contract names.  An ease factor is a     *)
(* number of hundredths (2.5 is 250), an interval a number of days, and a  *)
(* date the number of its day.                                             *)
(***************************************************************************)
\* bounds of the scheduler model
\* the longest interval of a starting card
MaxInterval == 3
\* the last day a review is made on
MaxDate == 1
\* grading events in a run
MaxReviews == 2

\* the floor of the ease factor: 1.3
MinEase == 130
\* the ease factor of a new card: 2.5
InitialEase == 250

Grades == {"Again", "Hard", "Good", "Easy"}

SRFlashcard(id, easeFactor, interval, dueDate) ==
    [id |-> id, easeFactor |-> easeFactor, interval |-> interval, dueDate |-> dueDate]

Max(a, b) == IF a >= b THEN a ELSE b

\* round(n / d) for n >= 0 and d > 0, halves upwards
Round(n, d) == (2 * n + d) \div (2 * d)

\* a review whose Again penalty has no floor
review_NoFloor(card, grade, date) ==
    LET e == card.easeFactor
        i == card.interval
        easeFactor ==
            CASE grade = "Again" -> e - 20
              [] grade = "Hard"  -> Max(MinEase, e - 15)
              [] grade = "Good"  -> e
              [] grade = "Easy"  -> e + 15
        interval ==
            CASE grade = "Again" -> 1
              [] grade = "Hard"  -> Max(Round(i * 120, 100), i + 1)
              [] grade = "Good"  -> Max(1, Round(i * e, 100))
              [] grade = "Easy"  -> Round(i * e * 130, 10000)
    IN  [card EXCEPT !.easeFactor = easeFactor, !.interval = interval,
                     !.dueDate = date + interval]

\* review(card, grade) on the grading date the caller supplies.
\*   Again: interval 1; ease - 0.2, not below 1.3
\*   Hard:  interval round(interval * 1.2), at least interval + 1;
\*          ease - 0.15, not below 1.3
\*   Good:  interval round(interval * ease), at least 1; ease unchanged
\*   Easy:  interval round(interval * ease * 1.3); ease + 0.15
\*   due date: the grading date + the new interval
review(card, grade, date) ==
    LET e == card.easeFactor
        i == card.interval
        easeFactor ==
            CASE grade = "Again" -> Max(MinEase, e - 20)
              [] grade = "Hard"  -> Max(MinEase, e - 15)
              [] grade = "Good"  -> e
              [] grade = "Easy"  -> e + 15
        interval ==
            CASE grade = "Again" -> 1
              [] grade = "Hard"  -> Max(Round(i * 120, 100), i + 1)
              [] grade = "Good"  -> Max(1, Round(i * e, 100))
              [] grade = "Easy"  -> Round(i * e * 130, 10000)
    IN  [card EXCEPT !.easeFactor = easeFactor, !.interval = interval,
                     !.dueDate = date + interval]

\* a grading event: the card graded as it was, the grade and the date
GradingEvent(card, grade, date) == [card |-> card, grade |-> grade, date |-> date]

SchedulerFrame == UNCHANGED <<decodeVars, clientVars, contextVars, displayedTab,
                              searchVars, localStorage, plannerVars, inflight, user,
                              tabVars, settingsVars>>

\* a caller that reschedules every card due on the same day as the card it
\* grades
Review_Batch(k, grade, date) ==
    /\ k \in 1..Len(cards)
    /\ Len(reviews) < MaxReviews
    /\ cards' = [j \in 1..Len(cards) |->
                    IF j = k \/ cards[j].dueDate = cards[k].dueDate
                    THEN review(cards[j], grade, date) ELSE cards[j]]
    /\ reviews' = Append(reviews, GradingEvent(cards[k], grade, date))
    /\ SchedulerFrame

\* the learner grades the k-th card on a date: the card is replaced by the
\* reviewed one
Review(k, grade, date) ==
    /\ k \in 1..Len(cards)
    /\ Len(reviews) < MaxReviews
    /\ cards' = [cards EXCEPT ![k] = review(cards[k], grade, date)]
    /\ reviews' = Append(reviews, GradingEvent(cards[k], grade, date))
    /\ SchedulerFrame

\* the ease factors of the starting card: the floor, just above it, and
\* the one of a new card
SampleEases == {MinEase, 140, InitialEase}

\* two cards: any sampled card that was scheduled on day 0, and a new one
InitScheduler ==
    /\ DecodeIdle /\ ClientIdle
    /\ ingestedText = Null /\ now = 0 /\ notifications = <<>> /\ timers = <<>>
    /\ displayedTab = "SRS Flashcards"
    /\ activeTab = "SRS Flashcards" /\ animationClass = "fade-in" /\ transition = <<>>
    /\ query = <<>> /\ isLoading = FALSE /\ results = Arr(<<>>)
    /\ searchAttempted = FALSE /\ searchHistory = Arr(<<>>)
    /\ localStorage = NoItem
    /\ plannerIsLoading = FALSE /\ studyPlan = Null
    /\ inflight = <<>> /\ user = NoUser
    /\ SettingsIdle
    /\ \E e \in SampleEases, i \in 0..MaxInterval :
          cards = <<SRFlashcard("a", e, i, i), SRFlashcard("b", InitialEase, 0, 0)>>
    /\ reviews = <<>>

NextScheduler ==
    \E k \in 1..2, grade \in Grades, date \in 0..MaxDate : Review(k, grade, date)

SpecScheduler == InitScheduler /\ [][NextScheduler]_vars

(***************************************************************************)
(* The claims about the scheduler (SpecScheduler).                         *)
(***************************************************************************)
\* the step is a grading event of the k-th card with grade
Graded(k, grade) ==
    /\ Len(reviews') = Len(reviews) + 1
    /\ reviews'[Len(reviews')].card = cards[k]
    /\ reviews'[Len(reviews')].grade = grade

\* the grading event before this step was an Again of the k-th card when
\* its ease factor was ease
AfterAgainFrom(k, ease) ==
    /\ reviews # <<>>
    /\ reviews[Len(reviews)].grade = "Again"
    /\ reviews[Len(reviews)].card.id = cards[k].id
    /\ reviews[Len(reviews)].card.easeFactor = ease

C15_Monotonic ==
    \A k \in 1..Len(cards) : \A date \in 0..MaxDate :
        /\ review(cards[k], "Easy", date).interval >= review(cards[k], "Good", date).interval
        /\ review(cards[k], "Good", date).interval >= review(cards[k], "Hard", date).interval
        /\ review(cards[k], "Hard", date).interval >= review(cards[k], "Again", date).interval

\* the grading events of the card id, in their order
EventsOf(id) == SelectSeq(reviews, LAMBDA ev : ev.card.id = id)

\* the card after the grading events, one after the other
RECURSIVE Replay(_, _)
Replay(card, events) ==
    IF events = <<>> THEN card
    ELSE Replay(review(card, Head(events).grade, Head(events).date), Tail(events))

\* the k-th card as its own grading events alone leave it
ReviewedAlone(k) ==
    LET events == EventsOf(cards[k].id)
    IN  IF events = <<>> THEN cards[k] ELSE Replay(events[1].card, events)

\* C16: a grading event sets the due date of the card graded to the
\* grading date plus the card's new interval and changes no other card; an
\* ease factor, an interval or a due date changes in a grading event of
\* its card only; and every card is what its own grading events make of
\* it, however the events of the other cards fall among them.
C16_DueDate ==
    /\ [](\A k \in 1..Len(cards) : cards[k] = ReviewedAlone(k))
    /\ [][\A k \in 1..Len(cards) :
             /\ \A grade \in Grades :
                   Graded(k, grade) =>
                       /\ cards'[k].dueDate =
                             reviews'[Len(reviews')].date + cards'[k].interval
                       /\ cards'[k].id = cards[k].id
                       /\ \A j \in 1..Len(cards) : j # k => cards'[j] = cards[j]
             /\ cards'[k] # cards[k] => \E grade \in Grades : Graded(k, grade)]_vars

\* C16 witness: the new card was graded Easy on day 1, then the other card
\* (interval 3, ease 2.5) Good on day 0: it is due on day 8, and the new
\* card is as its own event left it
C16_Witness ==
    /\ Len(reviews) = 2
    /\ reviews[1].card.id = "b" /\ reviews[1].grade = "Easy" /\ reviews[1].date = 1
    /\ reviews[2].card.id = "a" /\ reviews[2].grade = "Good" /\ reviews[2].date = 0
    /\ reviews[2].card.interval = 3 /\ reviews[2].card.easeFactor = 250
    /\ cards[1].interval = 8 /\ cards[1].dueDate = 8 /\ cards[1].easeFactor = 250
    /\ cards[2].interval = 0 /\ cards[2].dueDate = 1 /\ cards[2].easeFactor = 265

(***************************************************************************)
(* The notifications in use (SpecNotify): components add notifications,    *)
(* the user dismisses them, time passes, and every auto-dismiss timer that *)
(* was started fires in the end (the event loop runs every timer).         *)
(***************************************************************************)
\* notifications whose auto-dismiss timer is pending at one time
MaxToasts == 2

NotificationTypes == {"error", "success", "info"}

SampleMessages2 ==
    {<<"Please ingest some text first.">>,
     <<"API Error during ", "semantic search", ": ", "quota exceeded">>}

\* a component calls addNotification
Notify(message, type) ==
    /\ Len(timers) < MaxToasts
    /\ addNotification(message, type)
    /\ UNCHANGED <<ingestedText, now, displayedTab, searchVars, localStorage,
                   plannerVars, inflight, user>>
    /\ UiFrame

NextNotify ==
    \/ \E message \in SampleMessages2, type \in NotificationTypes : Notify(message, type)
    \/ Tick
    \/ \E i \in 1..MaxToasts : TimerFires(i)
    \/ \E i \in 1..MaxToasts : DismissNotification(i)

SpecNotify ==
    /\ InitUI /\ [][NextNotify]_vars
    /\ \A i \in 1..(MaxToasts + 1) : WF_vars(TimerFires(i))

(***************************************************************************)
(* The claims about the notifications (SpecNotify).                        *)
(***************************************************************************)
SampleNotifications ==
    {Notification(id, message, type) :
        id \in 0..(MaxNow + 1), message \in SampleMessages2, type \in NotificationTypes}

Listed(n) == \E i \in 1..Len(notifications) : notifications[i] = n

\* the step is the firing of the pending timer at i
Fires(i) ==
    /\ i \in 1..Len(timers)
    /\ Len(timers') = Len(timers) - 1
    /\ timers' = RemoveAt(timers, i)

\* every notification listed leaves the list in the end
EventuallyRemoved == \A n \in SampleNotifications : Listed(n) ~> ~Listed(n)

\* C17: every notification added is removed in the end, by its own timer
\* unless it was dismissed by hand before: a step takes at most one
\* notification off the list (the one whose timer fires, or the one
\* dismissed), and a timer that fires when no notification of its id is
\* listed leaves the list as it is.
C17_AutoDismiss ==
    /\ EventuallyRemoved
    /\ [][/\ Len(notifications') >= Len(notifications) - 1
          /\ \A i \in 1..Len(timers) :
                (Fires(i) /\ \A k \in 1..Len(notifications) :
                                notifications[k].id # timers[i])
                    => notifications' = notifications]_vars

\* C18: the notifications in the list have distinct ids, and a removal,
\* by hand or by a timer, takes exactly one notification off the list and
\* leaves the others in their order.
C18_DistinctIds ==
    /\ [](\A i, j \in 1..Len(notifications) :
              i # j => notifications[i].id # notifications[j].id)
    /\ [][Len(notifications') < Len(notifications) =>
              \E i \in 1..Len(notifications) :
                  notifications' = RemoveAt(notifications, i)]_vars

-----------------------------------------------------------------------------
\* Tab transitions of MainContent over every tab of the header.

\* the values of the Tab enum, which the header lists as buttons
AllTabs ==
    {Ingest, "Summary", "SRS Flashcards", "MCQ", SemanticSearch, "AI Tutor",
     "Audio Analysis", "Concept Map", "Lesson Planner", StudyPlanner}

NextTabs ==
    \/ \E tab \in AllTabs : setActiveTab(tab)
    \/ \E i \in 1..Len(transition) : TransitionTimerFires(i)

\* a timer set with setTimeout fires unless it is cleared
SpecTabs ==
    /\ InitUI
    /\ [][NextTabs]_vars
    /\ WF_vars(\E i \in 1..Len(transition) : TransitionTimerFires(i))

\* C19: whenever the displayed tab is the active tab and no transition
\* timer is pending, the content has the class 'fade-in', also after the
\* user switched away and back before the 200 ms ran out.
C19_FadeIn ==
    (displayedTab = activeTab /\ transition = <<>>)
        => animationClass = "fade-in"

\* C20: after a tab change the displayed tab becomes the active tab in the
\* end, if the active tab stays; a tab change during a pending transition
\* cancels the timer of the previous one, so at most one transition timer is
\* pending, it is the one of the active tab, and the displayed tab is never
\* set to a tab that is not active any more.
C20_Transition ==
    /\ \A tab \in AllTabs :
          (activeTab = tab /\ displayedTab # tab)
              ~> (displayedTab = tab \/ activeTab # tab)
    /\ [](/\ Len(transition) <= 1
          /\ activeTab # displayedTab => transition = <<activeTab>>)
    /\ [][displayedTab' # displayedTab =>
              /\ displayedTab' = activeTab
              /\ activeTab' = activeTab
              /\ animationClass' = "fade-in"
              /\ transition' = <<>>]_vars

\* the transition to MCQ completed; then another tab was selected and MCQ
\* again before the 200 ms ran out: the pending timer was cleared and the
\* displayed tab stayed the one that is active
C20_Witness ==
    /\ displayedTab = "MCQ"
    /\ activeTab = "MCQ"
    /\ transition = <<>>
    /\ animationClass = "fade-out"

-----------------------------------------------------------------------------
(***************************************************************************)
(* Overlapping searches (SpecSearch): on ingested notes, with Semantic     *)
(* Search displayed, the user starts a search while earlier ones still     *)
(* await their response: the Enter key and the entries of Recent Searches  *)
(* are not disabled while a search is loading.                             *)
(***************************************************************************)
\* searches awaiting their response at one time
MaxOverlap == 2

\* the queries typed: "a" and "b"
OverlapQueries == {<<Lower("a")>>, <<Lower("b")>>}

\* the response of the backend to a search of q: one snippet, which is q
AnswerTo(q) ==
    RemoteResolves(JSONstringify(Obj(<<"snippets">>, <<Arr(<<Str(q)>>)>>)))

\* the Enter key in the search input: handleSearch, whatever isLoading is
EnterKey ==
    /\ runSearchWithin(query, MaxOverlap)
    /\ UNCHANGED <<query, user>>

\* the Search button, disabled for a blank query and while loading
SearchButton ==
    /\ trim(query) # <<>>
    /\ ~isLoading
    /\ runSearchWithin(query, MaxOverlap)
    /\ UNCHANGED <<query, user>>

\* a click on the i-th entry of Recent Searches: handleHistoryClick
HistoryButton(i) ==
    /\ i \in 1..Len(searchHistory.e)
    /\ setQuery(searchHistory.e[i].s)
    /\ runSearchWithin(searchHistory.e[i].s, MaxOverlap)
    /\ UNCHANGED user

\* the search in flight at i is answered
SettleAnswer(i) ==
    /\ i \in 1..Len(inflight)
    /\ SettleSearch(i, AnswerTo(inflight[i].query))

\* the search in flight at i fails
SettleFailure(i) ==
    /\ i \in 1..Len(inflight)
    /\ SettleSearch(i, RemoteRejects(ErrorValue("quota exceeded")))

NextSearch ==
    \/ \E text \in OverlapQueries : TypeQuery(text)
    \/ EnterKey
    \/ SearchButton
    \/ \E i \in 1..MaxOverlap : HistoryButton(i)
    \/ \E i \in 1..MaxOverlap : SettleAnswer(i)
    \/ \E i \in 1..MaxOverlap : SettleFailure(i)
    \/ \E i \in 1..MaxNotifications : TimerFires(i)

SpecSearch == InitHistory /\ [][NextSearch]_vars

\* the searches of the displayed component that await their response
SearchesInFlight ==
    {i \in 1..Len(inflight) : inflight[i].feature = "search" /\ inflight[i].live}

\* C21: in SemanticSearch isLoading is true exactly while at least one
\* search request is in flight, however the searches were started; it is
\* false only when every started request has settled.
C21_LoadingWhileInFlight ==
    displayedTab = SemanticSearch => (isLoading <=> SearchesInFlight # {})

\* the results the component shows for the answer to a search of q
ResultsFor(q) == performSemanticSearch(AnswerTo(q)).v

\* C22: once every search in flight has settled, the results displayed are
\* those returned for the search started last (none, when it failed),
\* in whatever order the responses arrived: the response to an earlier
\* search does not replace the results of a later one.  The search started
\* last is the first entry of Recent Searches.
C22_LatestResults ==
    (displayedTab = SemanticSearch /\ inflight = <<>> /\ Len(searchHistory.e) > 0)
        => results \in {Arr(<<>>), ResultsFor(searchHistory.e[1].s)}

-----------------------------------------------------------------------------
\* the step adds one notification, of type info with this message, and
\* starts its timer
NotifiesInfo(message) ==
    /\ notifications' = Append(notifications, Notification(now, message, "info"))
    /\ timers' = Append(timers, now)

\* the step starts no generation call and leaves alone what the two
\* features show and store
NothingStarted ==
    /\ inflight' = inflight
    /\ searchHistory' = searchHistory /\ localStorage' = localStorage
    /\ results' = results /\ searchAttempted' = searchAttempted
    /\ isLoading' = isLoading
    /\ studyPlan' = studyPlan /\ plannerIsLoading' = plannerIsLoading
    /\ query' = query /\ ingestedText' = ingestedText
    /\ displayedTab' = displayedTab

\* C23: no feature calls the backend without valid input.  runSearch
\* without ingested text, or with a query that is blank after trimming,
\* adds an info notification and leaves the search history (in memory and
\* stored), results, searchAttempted and isLoading as they were;
\* handleGenerate without ingested text adds an info notification and
\* leaves studyPlan and isLoading as they were; and every generation call
\* that is started has ingested text and, for a search, a query that is
\* not blank.
C23_NoRequestWithoutInput ==
    [][/\ (handleSearch /\ ~Truthy(ingestedText)) =>
              NotifiesInfo(<<"Please ingest some text first.">>) /\ NothingStarted
       /\ (handleSearch /\ Truthy(ingestedText) /\ trim(query) = <<>>) =>
              NotifiesInfo(<<"Please enter a search query.">>) /\ NothingStarted
       /\ (handleGenerate /\ ~Truthy(ingestedText)) =>
              NotifiesInfo(<<"Please ingest your study material first.">>)
              /\ NothingStarted
       /\ Len(inflight') > Len(inflight) =>
              /\ Truthy(ingestedText)
              /\ \A call \in {inflight'[Len(inflight')]} :
                    call.feature = "search" => trim(call.query) # <<>>]_vars

\* C23 witness: with notes ingested, a query of white space was searched:
\* the notification is there, and nothing was started, shown or stored
C23_Witness ==
    /\ Truthy(ingestedText)
    /\ displayedTab = SemanticSearch
    /\ query = <<WS>>
    /\ \E i \in 1..Len(notifications) :
          notifications[i] =
              Notification(notifications[i].id, <<"Please enter a search query.">>, "info")
    /\ inflight = <<>> /\ ~isLoading /\ ~searchAttempted
    /\ searchHistory = Arr(<<>>) /\ localStorage = NoItem
    /\ results = Arr(<<>>)

=============================================================================
